---- MODULE Spec2Model ----
(***************************************************************************)
(* Model of the Gangland-Genesis simulation kernel.                        *)
(*                                                                         *)
(* It covers src/src/systems/TerritorySystem.ts: the pending conflict map   *)
(* (conflictCache), conflict detection (updateTerritories,                 *)
(* registerConflict), conflict resolution (resolveConflicts,               *)
(* calculateWarStrength, resolveTerrritorialDispute, updateWarReputation); *)
(* the ConspiracySystem of src/unnamed/part_003: its status cache and the  *)
(* handling of power vacuums; and the two host loops, ArgosAdvanced        *)
(* (src/src/index.ts) and Simulation (src/src/examples/                    *)
(* basic-simulation.ts): systems update, then tick.                        *)
(*                                                                         *)
(* Representation.                                                         *)
(*   - A ui32 bitfield whose bits are only tested, set and cleared one at  *)
(*     a time (territories, activeConflicts) is the set of its set bit     *)
(*     indices.  The allies mask, which the code scans by shifting, is an  *)
(*     integer.                                                            *)
(*   - f32 quantities are exact fixed-point numbers: warStrength and the   *)
(*     stability entries in tenths, reputation in hundredths.  A strength  *)
(*     is the numerator of the exact product over StrengthDen.             *)
(*   - conflictCache, a JS Map, is the sequence of its entries in          *)
(*     insertion order (the order a Map iterates in); the string key       *)
(*     "min_max" is the pair of fields g1 <= g2.                           *)
(*   - An exception that leaves update() is recorded in err; the host      *)
(*     never catches it, so nothing runs afterwards.                       *)
(***************************************************************************)
EXTENDS Integers, Sequences, FiniteSets, TLC

\* ---- bounds of the model ----
NumGangs == 4
\* iterations after which a bit-scan loop is no longer followed
MaxScan == 34
\* interactions an entity records before recording stops
MaxRecordings == 9
\* updates of the EmotionalBehaviorSystem that are followed
MaxTicks == 18
MaxTime == 103
MaxHostTime == 1
MaxCalls == 2
MaxHostOps == 1

\* ---- program constants ----
TERRITORY_GRID == 16
\* MIN_STRENGTH = 0.3, in tenths
MIN_STRENGTH == 3
\* the literal 100 of resolveConflicts
MATURATION == 100
\* ui16 counters (casualties, victories) wrap at 2^16
UI16 == 65536

\* entity ids are dense and start at 0
Gangs == 0..(NumGangs - 1)
\* the slots the host ever claims
ClaimSlots == {3, 5}
NoGang == -1
NoCall == [gang1 |-> NoGang, gang2 |-> NoGang, territory |-> NoGang, winner |-> NoGang]

\* fixed-point denominators: strength = StrengthNum / StrengthDen
\* tenths * (160ths of the stability sum) * (500ths of the reputation term)
StrengthDen == 10 * 160 * 500

Abs(x) == IF x < 0 THEN -x ELSE x
Min(a, b) == IF a < b THEN a ELSE b
Max(a, b) == IF a > b THEN a ELSE b

VARIABLES
    time,            \* world.time
    alive,           \* entities holding TerritoryControl, WarfareState, UndergroundEconomy
    territories,     \* TerritoryControl.territories
    stability,       \* TerritoryControl.stability[16], as a 16-tuple
    activeConflicts, \* WarfareState.activeConflicts
    warStrength,     \* WarfareState.warStrength
    allies,          \* WarfareState.allies
    casualties,      \* WarfareState.casualties
    victories,       \* WarfareState.victories
    reputation,      \* WarfareState.reputation
    conflictCache,   \* TerritorySystem.conflictCache
    err,             \* exception that left update(), or "none"
    hostOps,         \* host writes done so far
    calls,           \* direct calls of the dispute method made so far
    lastCall,        \* arguments of the last direct call
    host,            \* the class whose update() drives the world
    power,           \* PowerStructure, per agent
    conspiracy,      \* ConspiracyState.membershipFlags, per agent
    supportOf,       \* what calculateSupport yields for an agent
    conspiracyCache, \* ConspiracySystem.conspiracyCache
    laxCache,        \* the same cache under another pruning schedule
    store,           \* the component tables and fields of the other systems
    out              \* what the last operation logged and returned

\* the state of the ConspiracySystem
simVars == <<host, power, conspiracy, supportOf, conspiracyCache, laxCache>>

vars == <<time, alive, territories, stability, activeConflicts, warStrength,
          allies, casualties, victories, reputation, conflictCache, err,
          hostOps, calls, lastCall, simVars, store, out>>

\* the WarfareState / TerritoryControl fields a resolution can write,
\* threaded through the loops of update()
Fields == [terr |-> territories, ac |-> activeConflicts, cas |-> casualties,
           vic |-> victories, rep |-> reputation, cache |-> conflictCache,
           err |-> err, log |-> <<>>,
           grid |-> [i \in 0..(TERRITORY_GRID - 1) |-> NoGang]]

\* one entry of the log of a TerritorySystem update: the method that
\* started, or the gangster the per-gangster loop reached together with
\* the territories it read for it
Phase(name) == [phase |-> name, gangster |-> NoGang, owned |-> {}]
Planned(gangster, owned) == [phase |-> "gangster", gangster |-> gangster, owned |-> owned]
\* one entry of the log of a host update: a system's update() and the
\* world time it ran at
Saw(system, now) == [system |-> system, at |-> now]

\* nothing logged, nothing returned
NoOut == [sysLog |-> <<>>, phaseLog |-> <<>>, strength |-> NoGang, of |-> NoGang,
          vacuums |-> <<>>, candidates |-> <<>>, collapses |-> 0,
          status |-> <<>>, laxStatus |-> <<>>, computed |-> {},
          challenger |-> NoGang, leader |-> NoGang, branch |-> "none",
          support |-> [num |-> 0, den |-> 0],
          op |-> "none", operator |-> NoGang, indices |-> {}, error |-> "none",
          market |-> NoGang, grid |-> <<>>,
          kind |-> "none", value |-> <<>>, query |-> <<>>,
          looked |-> "none", hits |-> 0]

\* ---------------------------------------------------------------------
\* ComponentStore.get (spec 4.1): the handle of a present component,
\* MissingComponent for an entity whose components were removed.
\* ---------------------------------------------------------------------
Has(g) == g \in alive

\* gangsters(world): the entities holding all three kinds, ascending id
RECURSIVE Ascending(_)
Ascending(S) ==
    IF S = {} THEN <<>>
    ELSE LET m == CHOOSE x \in S : \A y \in S : x <= y
         IN  <<m>> \o Ascending(S \ {m})

gangsters == Ascending(alive)

\* index of the entry with key "lo_hi" in the map, 0 when absent
KeyIndex(cache, lo, hi) ==
    IF \E k \in 1..Len(cache) : cache[k].g1 = lo /\ cache[k].g2 = hi
    THEN CHOOSE k \in 1..Len(cache) : cache[k].g1 = lo /\ cache[k].g2 = hi
    ELSE 0

\* registerConflict without its `has` check: Map.set on a present key
\* overwrites the entry in place
registerConflict_NoHasCheck(F, gang1, gang2, territoryId, now) ==
    LET lo == Min(gang1, gang2)
        hi == Max(gang1, gang2)
        k == KeyIndex(F.cache, lo, hi)
        entry == [g1 |-> lo, g2 |-> hi, territory |-> territoryId,
                  startTime |-> now, lastUpdate |-> now]
    IN  [F EXCEPT
            !.ac = [F.ac EXCEPT ![gang1] = @ \cup {territoryId},
                                ![gang2] = @ \cup {territoryId}],
            !.cache = IF k # 0 THEN [@ EXCEPT ![k] = entry] ELSE Append(@, entry)]

\* registerConflict(gang1, gang2, territoryId) on the fields F at tick now
registerConflict(F, gang1, gang2, territoryId, now) ==
    LET lo == Min(gang1, gang2)
        hi == Max(gang1, gang2)
    IN  IF KeyIndex(F.cache, lo, hi) # 0 THEN F
        ELSE [F EXCEPT
                !.ac = [F.ac EXCEPT ![gang1] = @ \cup {territoryId},
                                    ![gang2] = @ \cup {territoryId}],
                !.cache = Append(@, [g1 |-> lo, g2 |-> hi,
                                     territory |-> territoryId,
                                     startTime |-> now,
                                     lastUpdate |-> now])]

\* `if (this.territoryGrid[i])`: null and entity id 0 are both falsy
Truthy(cell) == cell # NoGang /\ cell # 0

\* the inner loop of updateTerritories for one gangster, slots i..15;
\* R carries the grid and the fields
RECURSIVE ScanSlots(_, _, _, _)
ScanSlots(R, gangster, i, now) ==
    IF i >= TERRITORY_GRID THEN R
    ELSE IF i \in R.F.terr[gangster] THEN
        IF Truthy(R.grid[i])
        THEN ScanSlots([R EXCEPT !.F = registerConflict(R.F, gangster, R.grid[i], i, now)],
                       gangster, i + 1, now)
        ELSE ScanSlots([R EXCEPT !.grid[i] = gangster], gangster, i + 1, now)
    ELSE ScanSlots(R, gangster, i + 1, now)

RECURSIVE ScanGangs(_, _, _, _)
ScanGangs(R, order, k, now) ==
    IF k > Len(order) THEN R
    ELSE ScanGangs(ScanSlots(R, order[k], 0, now), order, k + 1, now)

\* updateTerritories(): clear the grid, then map every gangster's slots
updateTerritories(F, now) ==
    LET R == ScanGangs([grid |-> [i \in 0..(TERRITORY_GRID - 1) |-> NoGang], F |-> F],
                       gangsters, 1, now)
    IN  [R.F EXCEPT !.grid = R.grid]

\* ---------------------------------------------------------------------
\* Strength evaluation
\* ---------------------------------------------------------------------
\* getAllyContribution(gangster, allyIndex): one hop, the ally's own base
\* capability; nothing for an ally that no longer exists (spec 4.4 step 3)
getAllyContribution(gangster, allyIndex) ==
    IF allyIndex \in alive THEN warStrength[allyIndex] ELSE 0

\* the `while (allyMask)` loop: test bit 0, shift right, count up
RECURSIVE AllyLoop(_, _, _)
AllyLoop(gangster, allyMask, allyCount) ==
    IF allyMask = 0 THEN 0
    ELSE (IF allyMask % 2 = 1 THEN getAllyContribution(gangster, allyCount) ELSE 0)
         + AllyLoop(gangster, allyMask \div 2, allyCount + 1)

\* territory.stability.reduce((sum, s) => sum + s, 0), in tenths; the
\* 16-element array is a tuple, element i of the code at position i + 1
RECURSIVE StabilitySum(_, _)
StabilitySum(arr, i) ==
    IF i >= Len(arr) THEN 0 ELSE arr[i + 1] + StabilitySum(arr, i + 1)

\* calculateWarStrength whose ally loop is never entered
calculateWarStrength_NoAllies(F, gangster) ==
    warStrength[gangster]
    * (160 + StabilitySum(stability[gangster], 0))
    * (500 + F.rep[gangster])

\* calculateWarStrength(gangster) as the numerator over StrengthDen:
\* (warStrength + allies) * (1 + sum/16) * (1 + reputation * 0.2)
calculateWarStrength(F, gangster) ==
    (warStrength[gangster] + AllyLoop(gangster, allies[gangster], 0))
    * (160 + StabilitySum(stability[gangster], 0))
    * (500 + F.rep[gangster])

\* ---------------------------------------------------------------------
\* Resolution
\* ---------------------------------------------------------------------
\* updateWarReputation without the Math.min cap
updateWarReputation_NoCap(rep, victory) ==
    IF victory THEN rep + 10 ELSE (rep * 8) \div 10

\* updateWarReputation(gangster, warfare, victory), reputation in hundredths
updateWarReputation(rep, victory) ==
    IF victory THEN Min(100, rep + 10) ELSE (rep * 8) \div 10

\* resolveTerrritorialDispute whose else branch repeats the counters of
\* the then branch (warfare1.victories++, warfare2.casualties++)
resolveTerrritorialDispute_SameCounters(F, gang1, gang2, territoryId, winner) ==
    LET loser == IF winner = gang1 THEN gang2 ELSE gang1
        win   == IF winner = gang1 THEN gang1 ELSE gang2
        T1 == [F.terr EXCEPT ![loser] = @ \ {territoryId}]
        T2 == [T1 EXCEPT ![win] = @ \cup {territoryId}]
        V  == [F.vic EXCEPT ![gang1] = (@ + 1) % UI16]
        C  == [F.cas EXCEPT ![gang2] = (@ + 1) % UI16]
        R1 == [F.rep EXCEPT ![gang1] = updateWarReputation(@, winner = gang1)]
        R2 == [R1 EXCEPT ![gang2] = updateWarReputation(@, winner = gang2)]
        A1 == [F.ac EXCEPT ![gang1] = @ \ {territoryId}]
        A2 == [A1 EXCEPT ![gang2] = @ \ {territoryId}]
    IN  [F EXCEPT !.terr = T2, !.vic = V, !.cas = C, !.rep = R2, !.ac = A2]

\* resolveTerrritorialDispute(gang1, gang2, territoryId, winner): the
\* method the class defines (lines 168-194)
resolveTerrritorialDispute(F, gang1, gang2, territoryId, winner) ==
    LET loser == IF winner = gang1 THEN gang2 ELSE gang1
        win   == IF winner = gang1 THEN gang1 ELSE gang2
        T1 == [F.terr EXCEPT ![loser] = @ \ {territoryId}]
        T2 == [T1 EXCEPT ![win] = @ \cup {territoryId}]
        V  == [F.vic EXCEPT ![win] = (@ + 1) % UI16]
        C  == [F.cas EXCEPT ![loser] = (@ + 1) % UI16]
        R1 == [F.rep EXCEPT ![gang1] = updateWarReputation(@, winner = gang1)]
        R2 == [R1 EXCEPT ![gang2] = updateWarReputation(@, winner = gang2)]
        A1 == [F.ac EXCEPT ![gang1] = @ \ {territoryId}]
        A2 == [A1 EXCEPT ![gang2] = @ \ {territoryId}]
    IN  [F EXCEPT !.terr = T2, !.vic = V, !.cas = C, !.rep = R2, !.ac = A2]

\* this.resolveTerritorialDispute(...): the name resolveConflicts calls
\* (line 124).  The class defines no method of that name, so the call
\* is a call of undefined and throws a TypeError.
resolveTerritorialDispute(F, gang1, gang2, territoryId, winner) ==
    [F EXCEPT !.err = "TypeError"]

\* handleStalemate(gang1, gang2, conflict): both parties absorb a
\* casualty-equivalent cost (spec 4.4 step 4)
handleStalemate(F, gang1, gang2) ==
    [F EXCEPT !.cas = [F.cas EXCEPT ![gang1] = (@ + 1) % UI16,
                                    ![gang2] = (@ + 1) % UI16]]

\* conflictCache.delete(key) of the k-th entry
DeleteAt(cache, k) ==
    [j \in 1..(Len(cache) - 1) |-> IF j < k THEN cache[j] ELSE cache[j + 1]]

\* the maturity test with >= in place of >
Mature_Inclusive(c, now) == now - c.lastUpdate >= MATURATION

\* `this.world.time - conflict.lastUpdate > 100`
Mature(c, now) == now - c.lastUpdate > MATURATION

\* `Math.abs(strength1 - strength2) > this.MIN_STRENGTH`
Decisive(strength1, strength2) ==
    Abs(strength1 - strength2) * 10 > MIN_STRENGTH * StrengthDen

\* the body of the for-of loop of resolveConflicts for the k-th entry
\* and the entries after it; an exception ends the loop
RECURSIVE ResolveFrom(_, _, _)
ResolveFrom(F, k, now) ==
    IF F.err # "none" \/ k > Len(F.cache) THEN F
    ELSE LET conflict == F.cache[k]
             gang1 == conflict.g1
             gang2 == conflict.g2
         IN  IF ~Mature(conflict, now) THEN ResolveFrom(F, k + 1, now)
             ELSE IF ~Has(gang1) \/ ~Has(gang2)
                  THEN [F EXCEPT !.err = "MissingComponent"]
             ELSE LET strength1 == calculateWarStrength(F, gang1)
                      strength2 == calculateWarStrength(F, gang2)
                  IN  IF Decisive(strength1, strength2)
                      THEN LET G == resolveTerritorialDispute(F, gang1, gang2,
                                        conflict.territory,
                                        IF strength1 > strength2 THEN gang1 ELSE gang2)
                           IN  IF G.err # "none" THEN G
                               ELSE ResolveFrom([G EXCEPT !.cache = DeleteAt(@, k)], k, now)
                      ELSE ResolveFrom(
                               [handleStalemate(F, gang1, gang2)
                                   EXCEPT !.cache[k].lastUpdate = now],
                               k + 1, now)

resolveConflicts(F, now) == ResolveFrom(F, 1, now)

\* the per-gangster loop of update() (lines 49-65), gangsters k.. of the
\* query result: it reads the gangster's TerritoryControl; shouldExpand,
\* planExpansion, manageConflicts and the helpers of maintainControl are
\* not part of the class, the loop writes none of the modelled fields
RECURSIVE PlanFrom(_, _, _)
PlanFrom(F, order, k) ==
    IF k > Len(order) THEN F
    ELSE PlanFrom([F EXCEPT !.log = Append(@, Planned(order[k], F.terr[order[k]]))],
                  order, k + 1)

processGangsters(F) == PlanFrom(F, gangsters, 1)

\* update() with the per-gangster loop moved before resolveConflicts
update_PlanFirst(F, now) ==
    LET F1 == updateTerritories([F EXCEPT !.log = Append(@, Phase("updateTerritories"))], now)
        F2 == processGangsters(F1)
    IN  resolveConflicts([F2 EXCEPT !.log = Append(@, Phase("resolveConflicts"))], now)

\* TerritorySystem.update(): detection, resolution, per-gangster loop
update(F, now) ==
    LET F1 == updateTerritories([F EXCEPT !.log = Append(@, Phase("updateTerritories"))], now)
        F2 == resolveConflicts([F1 EXCEPT !.log = Append(@, Phase("resolveConflicts"))], now)
    IN  IF F2.err # "none" THEN F2 ELSE processGangsters(F2)

\* ---------------------------------------------------------------------
\* Initial population
\* ---------------------------------------------------------------------
\* PowerDynamics and GroupDynamics of an entity no group holds: defineComponent
\* fields start at zero (influence in 1/1600, loyalty in 1/10000)
NoDynamics == [influence |-> 0, loyalty |-> 0, allies |-> {}, rivals |-> {},
               lastBetrayal |-> 0, groupId |-> 0, role |-> 0]

\* the length of the interaction memory of EmotionalCore
RING == 8

\* the interaction memory of an EmotionalCore component as created: the
\* typed arrays of zeros, nextSlot 0
NoEmotion == [recentInteractions |-> [slot \in 0..(RING - 1) |-> 0],
              interactionResults |-> [slot \in 0..(RING - 1) |-> 0],
              nextSlot |-> 0]

\* EconomicState, EmergencyPowers and the PowerStructure fields the
\* EconomicPowerSystem reads, as created; influence and oppositionPower are
\* what calculateControlInfluence and calculateOppositionPower give for the
\* holder, age counts the updates since its emergency was declared
NoEconomy == [resources |-> [i \in 0..7 |-> 0], control |-> {}, totalDebt |-> 0,
              marketInfluence |-> 0, influence |-> 0,
              powerBase |-> 0, leaderPosition |-> 0, stabilityFactor |-> 0,
              oppositionPower |-> 0,
              active |-> 0, duration |-> 0, justification |-> 0,
              opposition |-> {}, enforcers |-> {}, severity |-> 0, age |-> 0]

\* BehaviorState with the f32 fields of EmotionalCore as created; resting
\* counts the updates the current rest has lasted
NoBehavior == [currentTask |-> 0, taskProgress |-> 0, interruptible |-> 0,
               failureCount |-> 0, successCount |-> 0,
               mood |-> 0, energy |-> 0, socialDrive |-> 0, focusState |-> 0,
               resting |-> 0]

\* the component kinds createInitialAgents attaches
Kinds == {"EmotionalCore", "PowerDynamics", "TerritoryControl",
          "UndergroundEconomy", "ConspiracyState"}

\* the tables of the other systems before anything is attached or written
NoStore == [behavior |-> [g \in Gangs |-> NoBehavior], near |-> FALSE,
            economy |-> [g \in Gangs |-> NoEconomy],
            laundering |-> [g \in Gangs |->
                [cleanMoney |-> 0, dirtyMoney |-> [hi |-> 0, lo |-> 0],
                 launderCapacity |-> [i \in 0..7 |-> 0], auditRisk |-> 0,
                 methodMask |-> {}, protection |-> [i \in 0..7 |-> 0]]],
            hitOps |-> [g \in Gangs |-> [hitSquads |-> 0, heatLevel |-> 0]],
            raided |-> {}, hits |-> 0,
            emotion |-> [g \in Gangs |-> NoEmotion],
            recorded |-> [g \in Gangs |-> <<>>],
            nextEntity |-> 0,
            components |-> [kind \in Kinds |-> <<>>],
            dynamics |-> [g \in Gangs |-> NoDynamics],
            intel |-> [g \in Gangs |-> [informants |-> {}, compromised |-> {}]],
            underground |-> [g \in Gangs |-> [marketAccess |-> {}, contacts |-> {}]],
            potentialContacts |-> <<>>,
            trusted |-> {},
            activeMarkets |-> <<>>,
            discoveryCache |-> {},
            scan |-> [loop |-> "none", of |-> {}, mask |-> {}, index |-> 0,
                      visited |-> <<>>]]

\* a PowerStructure with no position
NoPower == [leaderPosition |-> 0, succession |-> <<0, 0, 0, 0>>,
            powerBase |-> 0, stabilityFactor |-> [m |-> 0, e |-> 0]]

NoStability == [i \in 1..TERRITORY_GRID |-> 0]
HalfStability == [i \in 1..TERRITORY_GRID |-> 5]

\* warStrength in tenths, reputation in hundredths, stability in tenths
Plain == [ws |-> 10, rep |-> 0, stab |-> NoStability, allies |-> 0]
Strong == [ws |-> 13, rep |-> 0, stab |-> NoStability, allies |-> 0]
Backed == [ws |-> 10, rep |-> 50, stab |-> HalfStability, allies |-> 1]

\* what the population descriptor may give one gang
Archetypes ==
    { [terr |-> {3},    prof |-> Plain],
      [terr |-> {3},    prof |-> Strong],
      [terr |-> {3, 5}, prof |-> Backed] }

Init ==
    /\ time = 0
    /\ alive = Gangs
    /\ \E pop \in [Gangs -> Archetypes] :
          /\ pop[0].prof = Plain
          /\ territories = [g \in Gangs |-> pop[g].terr]
          /\ warStrength = [g \in Gangs |-> pop[g].prof.ws]
          /\ reputation = [g \in Gangs |-> pop[g].prof.rep]
          /\ stability = [g \in Gangs |-> pop[g].prof.stab]
          /\ allies = [g \in Gangs |-> pop[g].prof.allies]
    /\ activeConflicts = [g \in Gangs |-> {}]
    /\ casualties = [g \in Gangs |-> 0]
    /\ victories = [g \in Gangs |-> 0]
    /\ conflictCache = <<>>
    /\ err = "none"
    /\ hostOps = 0
    /\ calls = 0
    /\ lastCall = NoCall
    /\ host = "ArgosAdvanced"
    /\ power = [g \in Gangs |-> NoPower]
    /\ conspiracy = [g \in Gangs |-> {}]
    /\ supportOf = [g \in Gangs |-> 0]
    /\ conspiracyCache = {}
    /\ laxCache = {}
    /\ store = NoStore
    /\ out = NoOut

SetFields(F) ==
    /\ territories' = F.terr
    /\ activeConflicts' = F.ac
    /\ casualties' = F.cas
    /\ victories' = F.vic
    /\ reputation' = F.rep
    /\ conflictCache' = F.cache
    /\ err' = F.err

\* ---------------------------------------------------------------------
\* Actions
\* ---------------------------------------------------------------------
\* ArgosAdvanced.update() with world.tick() moved before the
\* TerritorySystem
ArgosAdvanced_update_TickFirst(F, now) ==
    LET L2 == <<Saw("EmotionalBehaviorSystem", now), Saw("EconomicPowerSystem", now)>>
        F3 == update(F, now + 1)
        L3 == Append(L2, Saw("TerritorySystem", now + 1))
    IN  IF F3.err # "none" THEN [F |-> F3, sysLog |-> L3, time |-> now + 1]
        ELSE [F |-> F3, sysLog |-> Append(L3, Saw("CrimeSystem", now + 1)),
              time |-> now + 1]

\* ArgosAdvanced.update(): the four systems in the order of lines 23-26,
\* then world.tick(); an exception leaves update() before the tick.
\* Of the four, the TerritorySystem writes the fields modelled here.
ArgosAdvanced_update(F, now) ==
    LET L2 == <<Saw("EmotionalBehaviorSystem", now), Saw("EconomicPowerSystem", now)>>
        F3 == update(F, now)
        L3 == Append(L2, Saw("TerritorySystem", now))
    IN  IF F3.err # "none" THEN [F |-> F3, sysLog |-> L3, time |-> now]
        ELSE [F |-> F3, sysLog |-> Append(L3, Saw("CrimeSystem", now)),
              time |-> now + 1]

\* one call of the host's update()
Step ==
    /\ err = "none"
    /\ time < MaxTime
    /\ host = "ArgosAdvanced"
    /\ \E R \in {ArgosAdvanced_update(Fields, time)} :
           /\ SetFields(R.F)
           /\ time' = R.time
           /\ out' = [NoOut EXCEPT !.sysLog = R.sysLog, !.phaseLog = R.F.log,
                                   !.grid = R.F.grid]
    /\ UNCHANGED <<alive, stability, warStrength, allies, hostOps, calls, lastCall, simVars,
                   store>>

\* the host (or an expansion) sets a territory bit between two updates
ClaimSlot ==
    /\ err = "none"
    /\ host = "ArgosAdvanced"
    /\ 1 <= time /\ time <= MaxHostTime
    /\ hostOps < MaxHostOps
    /\ \E g \in alive :
          \E s \in ClaimSlots \ territories[g] :
              territories' = [territories EXCEPT ![g] = @ \cup {s}]
    /\ hostOps' = hostOps + 1
    /\ UNCHANGED <<time, alive, stability, activeConflicts, warStrength, allies,
                   casualties, victories, reputation, conflictCache, err, calls, lastCall,
                   simVars, store, out>>

\* the host detaches the components of a party of a pending conflict
RemoveEntity ==
    /\ err = "none"
    /\ host = "ArgosAdvanced"
    /\ 1 <= time /\ time <= MaxHostTime
    /\ hostOps < MaxHostOps
    /\ \E g \in alive :
          /\ \E k \in 1..Len(conflictCache) :
                g \in {conflictCache[k].g1, conflictCache[k].g2}
          /\ alive' = alive \ {g}
    /\ hostOps' = hostOps + 1
    /\ UNCHANGED <<time, territories, stability, activeConflicts, warStrength,
                   allies, casualties, victories, reputation, conflictCache,
                   err, calls, lastCall, simVars, store, out>>

Next == Step \/ ClaimSlot \/ RemoveEntity

Spec == Init /\ [][Next]_vars

\* ---------------------------------------------------------------------
\* The dispute method applied directly: resolveTerrritorialDispute on
\* arguments as resolveConflicts builds them (gang1 < gang2 from the
\* key, a slot, the winner one of the two)
\* ---------------------------------------------------------------------
RepChoices == {0, 50, 95, 100}

InitDispute ==
    /\ time = 0
    /\ alive = Gangs
    /\ territories = [g \in Gangs |-> {3}]
    /\ activeConflicts = [g \in Gangs |-> {3}]
    /\ warStrength = [g \in Gangs |-> Plain.ws]
    /\ stability = [g \in Gangs |-> Plain.stab]
    /\ allies = [g \in Gangs |-> Plain.allies]
    /\ \E r \in RepChoices : reputation = [g \in Gangs |-> r]
    /\ casualties = [g \in Gangs |-> 0]
    /\ victories = [g \in Gangs |-> 0]
    /\ conflictCache = <<>>
    /\ err = "none"
    /\ hostOps = 0
    /\ calls = 0
    /\ lastCall = NoCall
    /\ host = "ArgosAdvanced"
    /\ power = [g \in Gangs |-> NoPower]
    /\ conspiracy = [g \in Gangs |-> {}]
    /\ supportOf = [g \in Gangs |-> 0]
    /\ conspiracyCache = {}
    /\ laxCache = {}
    /\ store = NoStore
    /\ out = NoOut

DisputeCall ==
    /\ calls < MaxCalls
    /\ \E gang1 \in Gangs, gang2 \in Gangs, territoryId \in ClaimSlots :
          /\ gang1 < gang2
          /\ \E winner \in {gang1, gang2} :
                /\ SetFields(resolveTerrritorialDispute(Fields, gang1, gang2,
                                                        territoryId, winner))
                /\ lastCall' = [gang1 |-> gang1, gang2 |-> gang2,
                                territory |-> territoryId, winner |-> winner]
    /\ calls' = calls + 1
    /\ UNCHANGED <<time, alive, stability, warStrength, allies, hostOps, simVars,
                   store, out>>

NextDispute == DisputeCall

SpecDispute == InitDispute /\ [][NextDispute]_vars

\* ---------------------------------------------------------------------
\* ConspiracySystem (src/unnamed/part_003)
\*
\* stabilityFactor, an f32 that the code only compares and halves, is the
\* pair [m, e] standing for (m / 100) / 2^e, so that halving is exact.
\* powerBase is in tenths, a support value in hundredths.  membershipFlags
\* is the set of its bit indices.  A cache is the set of its entries
\* [agent, flags, status, timestamp], at most one per key "agent_flags".
\* ---------------------------------------------------------------------
\* the literal 0.2 of detectPowerVacuums, in hundredths
COLLAPSE_THRESHOLD == 20
\* the literal 100 of updateConspiracyStatus
CACHE_TTL == 100
MAX_CONSPIRACIES == 32
\* minViabilitySupport (spec 6), in hundredths
MIN_VIABILITY == 60

Stab(m) == [m |-> m, e |-> 0]
\* s1 < s2 on stability values
StabLess(s1, s2) == s1.m * (2 ^ s2.e) < s2.m * (2 ^ s1.e)
\* `power.stabilityFactor *= 0.5`
Halved(st) == [st EXCEPT !.e = @ + 1]

\* the agents query: entities holding ConspiracyState and PowerStructure
agents == Ascending(alive)

\* what one update of the ConspiracySystem works on
SimFields == [P |-> power, C |-> conspiracy, cache |-> conspiracyCache,
              lax |-> laxCache, vacuums |-> <<>>, candidates |-> <<>>,
              collapses |-> 0, status |-> [a \in {} |-> 0],
              laxStatus |-> [a \in {} |-> 0], computed |-> {}]

\* pruneCache() (called at line 37): prune(maxAge) with the cache's own
\* window, deleting the entries older than it (spec 4.3)
pruneCache(cache, now) == {c \in cache : ~(now - c.timestamp > CACHE_TTL)}

\* updatePowerStructures: powerBase += calculatePowerShift(agent, power);
\* calculatePowerShift is not part of the class, and no shift is applied
updatePowerStructures(S) == S

\* detectPowerVacuums without the test of the position
detectPowerVacuums_AnyRank(S, order) ==
    LET hit == SelectSeq(order, LAMBDA a :
                   StabLess(S.P[a].stabilityFactor, Stab(COLLAPSE_THRESHOLD)))
    IN  [k \in 1..Len(hit) |->
            [position |-> S.P[hit[k]].leaderPosition, agent |-> hit[k],
             stability |-> S.P[hit[k]].stabilityFactor]]

\* detectPowerVacuums with <= in place of <
detectPowerVacuums_Inclusive(S, order) ==
    LET hit == SelectSeq(order, LAMBDA a :
                   /\ S.P[a].leaderPosition > 0
                   /\ ~StabLess(Stab(COLLAPSE_THRESHOLD), S.P[a].stabilityFactor))
    IN  [k \in 1..Len(hit) |->
            [position |-> S.P[hit[k]].leaderPosition, agent |-> hit[k],
             stability |-> S.P[hit[k]].stabilityFactor]]

\* detectPowerVacuums(agents): severity = 1 - stabilityFactor is kept as
\* the stability it is computed from
detectPowerVacuums(S, order) ==
    LET hit == SelectSeq(order, LAMBDA a :
                   /\ S.P[a].leaderPosition > 0
                   /\ StabLess(S.P[a].stabilityFactor, Stab(COLLAPSE_THRESHOLD)))
    IN  [k \in 1..Len(hit) |->
            [position |-> S.P[hit[k]].leaderPosition, agent |-> hit[k],
             stability |-> S.P[hit[k]].stabilityFactor]]

\* the comparators of the two Array.sort calls: a sorts before b
\*   vacuums:    b.severity - a.severity || b.position - a.position
\*   candidates: b.support - a.support
Before(kind, a, b) ==
    IF kind = "vacuum"
    THEN \/ StabLess(a.stability, b.stability)
         \/ /\ ~StabLess(b.stability, a.stability)
            /\ a.position > b.position
    ELSE a.support > b.support

\* Array.prototype.sort is stable: x goes before the first element it
\* sorts before
InsertSorted(kind, sorted, x) ==
    LET later == {i \in 1..Len(sorted) : Before(kind, x, sorted[i])}
        at == IF later = {} THEN Len(sorted) + 1
              ELSE CHOOSE i \in later : \A j \in later : i <= j
    IN  [i \in 1..(Len(sorted) + 1) |->
            IF i < at THEN sorted[i] ELSE IF i = at THEN x ELSE sorted[i - 1]]

RECURSIVE SortFrom(_, _, _, _)
SortFrom(kind, list, k, sorted) ==
    IF k > Len(list) THEN sorted
    ELSE SortFrom(kind, list, k + 1, InsertSorted(kind, sorted, list[k]))

sort(kind, list) == SortFrom(kind, list, 1, <<>>)

\* calculateSupport(agent, agents): not part of the class; its value for
\* an agent is an attribute of the population
calculateSupport(agent, order) == supportOf[agent]

\* isViableSuccessor / isViableClaimant(agent, agentPower, vacuum): not
\* part of the class; a candidate is viable when it is not the holder,
\* its support exceeds the minimum-viability threshold and its capability
\* exceeds the incumbent's (spec 4.5)
isViableSuccessor(S, agent, vacuum) ==
    /\ agent # vacuum.agent
    /\ supportOf[agent] > MIN_VIABILITY
    /\ S.P[agent].powerBase > S.P[vacuum.agent].powerBase

isViableClaimant(S, agent, vacuum) == isViableSuccessor(S, agent, vacuum)

Candidate(S, agent, order) ==
    [agent |-> agent, power |-> S.P[agent].powerBase,
     support |-> calculateSupport(agent, order)]

\* `for (const successor of power.succession)`, entries k..4
RECURSIVE DesignatedFrom(_, _, _, _, _)
DesignatedFrom(S, vacuum, order, k, candidates) ==
    LET succession == S.P[vacuum.agent].succession
    IN  IF k > Len(succession) THEN candidates
        ELSE IF succession[k] = 0
             THEN DesignatedFrom(S, vacuum, order, k + 1, candidates)
        ELSE IF isViableSuccessor(S, succession[k], vacuum)
             THEN DesignatedFrom(S, vacuum, order, k + 1,
                                 Append(candidates, Candidate(S, succession[k], order)))
        ELSE DesignatedFrom(S, vacuum, order, k + 1, candidates)

\* `for (const agent of agents)`, agents k..; succession.includes(agent)
\* is true of agent 0 whenever an entry of the list is the empty entry 0
RECURSIVE ClaimantsFrom(_, _, _, _, _)
ClaimantsFrom(S, vacuum, order, k, candidates) ==
    LET succession == S.P[vacuum.agent].succession
    IN  IF k > Len(order) THEN candidates
        ELSE IF \E j \in 1..Len(succession) : succession[j] = order[k]
             THEN ClaimantsFrom(S, vacuum, order, k + 1, candidates)
        ELSE IF isViableClaimant(S, order[k], vacuum)
             THEN ClaimantsFrom(S, vacuum, order, k + 1,
                                Append(candidates, Candidate(S, order[k], order)))
        ELSE ClaimantsFrom(S, vacuum, order, k + 1, candidates)

\* findViableSuccessors(vacuum, agents)
findViableSuccessors(S, vacuum, order) ==
    sort("candidate",
         ClaimantsFrom(S, vacuum, order, 1,
                       DesignatedFrom(S, vacuum, order, 1, <<>>)))

\* allocateConspiracyBit(): not part of the class; the lowest bit no
\* agent is a member of, the last one when all are taken
allocateConspiracyBit(S) ==
    LET free == (0..(MAX_CONSPIRACIES - 1)) \ UNION {S.C[a] : a \in DOMAIN S.C}
    IN  IF free = {} THEN MAX_CONSPIRACIES - 1
        ELSE CHOOSE b \in free : \A c \in free : b <= c

\* divideSupporters(vacuum, successors): not part of the class; every
\* successor leads a faction of its own
divideSupporters(vacuum, successors) ==
    [k \in 1..Len(successors) |-> [leader |-> successors[k].agent, supporters |-> {}]]

\* `for (const faction of factions)`, factions k..: the leader and the
\* supporters join a new conspiracy; the goals are not modelled
RECURSIVE FactionsFrom(_, _, _)
FactionsFrom(S, factions, k) ==
    IF k > Len(factions) THEN S
    ELSE LET conspiracyBit == allocateConspiracyBit(S)
             members == {factions[k].leader} \cup factions[k].supporters
         IN  FactionsFrom(
                 [S EXCEPT !.C = [a \in DOMAIN S.C |->
                                     IF a \in members THEN S.C[a] \cup {conspiracyBit}
                                     ELSE S.C[a]]],
                 factions, k + 1)

\* initiateSuccessionCrisis(vacuum, successors)
initiateSuccessionCrisis(S, vacuum, successors) ==
    FactionsFrom(S, divideSupporters(vacuum, successors), 1)

\* findAffectedAgents(vacuum, agents): not part of the class; every
\* stakeholder of the hierarchy (spec 4.5)
findAffectedAgents(vacuum, order) == order

\* `for (const agent of affected)`, agents k.. with Math.max dropped
RECURSIVE CollapseFrom_NoFloor(_, _, _)
CollapseFrom_NoFloor(S, affected, k) ==
    IF k > Len(affected) THEN S
    ELSE CollapseFrom_NoFloor(
             [S EXCEPT !.P[affected[k]].leaderPosition = (@ - 1) % 256,
                       !.P[affected[k]].stabilityFactor = Halved(@)],
             affected, k + 1)

\* `for (const agent of affected)`, agents k..; forceConspiracyRealignment
\* is not part of the class
RECURSIVE CollapseFrom(_, _, _)
CollapseFrom(S, affected, k) ==
    IF k > Len(affected) THEN S
    ELSE CollapseFrom(
             [S EXCEPT !.P[affected[k]].leaderPosition = Max(0, @ - 1),
                       !.P[affected[k]].stabilityFactor = Halved(@)],
             affected, k + 1)

\* handlePowerCollapse(vacuum, agents)
handlePowerCollapse(S, vacuum, order) ==
    [CollapseFrom(S, findAffectedAgents(vacuum, order), 1)
        EXCEPT !.collapses = @ + 1]

\* `for (const vacuum of vacuums)`, vacuums k.. of the sorted list
RECURSIVE VacuumsFrom(_, _, _, _)
VacuumsFrom(S, vacuums, order, k) ==
    IF k > Len(vacuums) THEN S
    ELSE LET successors == findViableSuccessors(S, vacuums[k], order)
             S1 == [S EXCEPT !.candidates = Append(@, successors)]
         IN  VacuumsFrom(IF Len(successors) > 0
                         THEN initiateSuccessionCrisis(S1, vacuums[k], successors)
                         ELSE handlePowerCollapse(S1, vacuums[k], order),
                         vacuums, order, k + 1)

\* handlePowerVacuums(vacuums, agents)
handlePowerVacuums(S, vacuums, order) ==
    LET sorted == sort("vacuum", vacuums)
    IN  VacuumsFrom([S EXCEPT !.vacuums = sorted], sorted, order, 1)

\* calculateConspiracyStatus(agent, conspiracy, power): not part of the
\* class; the computeFn of the cache (spec 4.3), here the agent's rank
calculateConspiracyStatus(S, agent) == S.P[agent].leaderPosition

\* the entry of a cache under the key "agent_flags", as a set
Cached(cache, agent, flags) == {c \in cache : c.agent = agent /\ c.flags = flags}

\* updateConspiracyStatus that returns whatever entry the key has
updateConspiracyStatus_NoExpiry(cache, S, agent, now) ==
    LET key == Cached(cache, agent, S.C[agent])
        status == calculateConspiracyStatus(S, agent)
    IN  IF key # {}
        THEN [cache |-> cache, status |-> (CHOOSE c \in key : TRUE).status,
              computed |-> FALSE]
        ELSE [cache |-> (cache \ key) \cup
                          {[agent |-> agent, flags |-> S.C[agent],
                            status |-> status, timestamp |-> now]},
              status |-> status, computed |-> TRUE]

\* updateConspiracyStatus(agent, conspiracy, power) on one cache
updateConspiracyStatus(cache, S, agent, now) ==
    LET key == Cached(cache, agent, S.C[agent])
        status == calculateConspiracyStatus(S, agent)
    IN  IF key # {} /\ (CHOOSE c \in key : TRUE).timestamp > now - CACHE_TTL
        THEN [cache |-> cache, status |-> (CHOOSE c \in key : TRUE).status,
              computed |-> FALSE]
        ELSE [cache |-> (cache \ key) \cup
                          {[agent |-> agent, flags |-> S.C[agent],
                            status |-> status, timestamp |-> now]},
              status |-> status, computed |-> TRUE]

\* the per-agent loop of update() (lines 49-60), agents k..; the lookup
\* is made on the cache and on its twin; assessStability is not part of
\* the class
RECURSIVE AgentsFrom(_, _, _, _)
AgentsFrom(S, order, k, now) ==
    IF k > Len(order) THEN S
    ELSE LET agent == order[k]
             r == updateConspiracyStatus(S.cache, S, agent, now)
             l == updateConspiracyStatus(S.lax, S, agent, now)
         IN  AgentsFrom(
                 [S EXCEPT !.cache = r.cache,
                           !.lax = l.cache,
                           !.status = [a \in DOMAIN @ \cup {agent} |->
                                          IF a = agent THEN r.status ELSE @[a]],
                           !.laxStatus = [a \in DOMAIN @ \cup {agent} |->
                                             IF a = agent THEN l.status ELSE @[a]],
                           !.computed = IF r.computed THEN @ \cup {agent} ELSE @],
                 order, k + 1, now)

\* ConspiracySystem.update(); prunes tells whether the owner of the twin
\* cache prunes it in this tick
ConspiracySystem_update(S, now, prunes) ==
    LET S1 == [S EXCEPT !.cache = pruneCache(@, now),
                        !.lax = IF prunes THEN pruneCache(@, now) ELSE @]
        S2 == updatePowerStructures(S1)
        vacuums == detectPowerVacuums(S2, agents)
        S3 == IF Len(vacuums) > 0 THEN handlePowerVacuums(S2, vacuums, agents) ELSE S2
    IN  AgentsFrom(S3, agents, 1, now)

\* Simulation.update() with world.tick() moved before the
\* ConspiracySystem
Simulation_update_TickFirst(F, S, now, prunes) ==
    LET L2 == <<Saw("EmotionalBehaviorSystem", now), Saw("PowerSystem", now)>>
        F3 == update(F, now)
        L3 == Append(L2, Saw("TerritorySystem", now))
        L4 == Append(L3, Saw("UndergroundSystem", now))
    IN  IF F3.err # "none" THEN [F |-> F3, S |-> S, sysLog |-> L3, time |-> now]
        ELSE [F |-> F3, S |-> ConspiracySystem_update(S, now + 1, prunes),
              sysLog |-> Append(L4, Saw("ConspiracySystem", now + 1)),
              time |-> now + 1]

\* Simulation.update() (basic-simulation.ts, lines 68-78): the five
\* systems in the order of lines 70-74, then world.tick().  Of the five,
\* the TerritorySystem and the ConspiracySystem write the fields
\* modelled here.
Simulation_update(F, S, now, prunes) ==
    LET L2 == <<Saw("EmotionalBehaviorSystem", now), Saw("PowerSystem", now)>>
        F3 == update(F, now)
        L3 == Append(L2, Saw("TerritorySystem", now))
        L4 == Append(L3, Saw("UndergroundSystem", now))
    IN  IF F3.err # "none" THEN [F |-> F3, S |-> S, sysLog |-> L3, time |-> now]
        ELSE [F |-> F3, S |-> ConspiracySystem_update(S, now, prunes),
              sysLog |-> Append(L4, Saw("ConspiracySystem", now)),
              time |-> now + 1]

\* what the population descriptor may give one agent: a PowerStructure
\* and the support the agent finds among the others
Shaky == [power |-> [leaderPosition |-> 2, succession |-> <<3, 0, 0, 0>>,
                     powerBase |-> 10, stabilityFactor |-> Stab(10)],
          support |-> 20]
Torn == [power |-> [leaderPosition |-> 1, succession |-> <<3, 3, 0, 0>>,
                    powerBase |-> 10, stabilityFactor |-> Stab(19)],
         support |-> 20]
Edge == [power |-> [leaderPosition |-> 2, succession |-> <<0, 0, 0, 0>>,
                    powerBase |-> 10, stabilityFactor |-> Stab(20)],
         support |-> 20]
Heir == [power |-> [leaderPosition |-> 1, succession |-> <<0, 0, 0, 0>>,
                    powerBase |-> 20, stabilityFactor |-> Stab(50)],
         support |-> 70]
Idle == [power |-> [leaderPosition |-> 0, succession |-> <<0, 0, 0, 0>>,
                    powerBase |-> 20, stabilityFactor |-> Stab(10)],
         support |-> 20]

\* the descriptor's choices for agent g
AgentArchetypes(g) ==
    IF g = 0 THEN {Heir, Idle, Edge}
    ELSE IF g \in {1, 2} THEN {Shaky, Torn, Edge, Heir, Idle}
    ELSE IF g = 3 THEN {Heir, Idle, Torn}
    ELSE {Idle, Edge}

\* the world of the Simulation class: every agent holds a slot of its
\* own, so that no territorial conflict arises
InitSim ==
    /\ time = 0
    /\ alive = Gangs
    /\ territories = [g \in Gangs |-> {g + 1}]
    /\ warStrength = [g \in Gangs |-> Plain.ws]
    /\ reputation = [g \in Gangs |-> Plain.rep]
    /\ stability = [g \in Gangs |-> Plain.stab]
    /\ allies = [g \in Gangs |-> Plain.allies]
    /\ activeConflicts = [g \in Gangs |-> {}]
    /\ casualties = [g \in Gangs |-> 0]
    /\ victories = [g \in Gangs |-> 0]
    /\ conflictCache = <<>>
    /\ err = "none"
    /\ hostOps = 0
    /\ calls = 0
    /\ lastCall = NoCall
    /\ host = "Simulation"
    /\ \E pop \in [Gangs -> {Shaky, Torn, Edge, Heir, Idle}] :
          /\ \A g \in Gangs : pop[g] \in AgentArchetypes(g)
          /\ power = [g \in Gangs |-> pop[g].power]
          /\ supportOf = [g \in Gangs |-> pop[g].support]
    /\ conspiracy = [g \in Gangs |-> {}]
    /\ conspiracyCache = {}
    /\ laxCache = {}
    /\ store = NoStore
    /\ out = NoOut

\* one call of Simulation.update()
SimStep ==
    /\ err = "none"
    /\ time < MaxTime
    /\ host = "Simulation"
    /\ \E prunes \in BOOLEAN :
          \E R \in {Simulation_update(Fields, SimFields, time, prunes)} :
              /\ SetFields(R.F)
              /\ time' = R.time
              /\ power' = R.S.P
              /\ conspiracy' = R.S.C
              /\ conspiracyCache' = R.S.cache
              /\ laxCache' = R.S.lax
              /\ out' = [NoOut EXCEPT !.sysLog = R.sysLog,
                                      !.phaseLog = R.F.log,
                                      !.grid = R.F.grid,
                                      !.vacuums = R.S.vacuums,
                                      !.candidates = R.S.candidates,
                                      !.collapses = R.S.collapses,
                                      !.status = R.S.status,
                                      !.laxStatus = R.S.laxStatus,
                                      !.computed = R.S.computed]
    /\ UNCHANGED <<alive, stability, warStrength, allies, hostOps, calls, lastCall,
                   host, supportOf, store>>

NextSim == SimStep

SpecSim == InitSim /\ [][NextSim]_vars

\* either host: the ArgosAdvanced class or the Simulation class
InitHosts == Init \/ InitSim

NextHosts == Next \/ NextSim

SpecHosts == InitHosts /\ [][NextHosts]_vars

\* ---------------------------------------------------------------------
\* calculateWarStrength applied directly, over bases, ally masks, held
\* slots, stability arrays and reputations
\* ---------------------------------------------------------------------
\* stability 0.5 on slot 3 only
HeldStability == [i \in 1..TERRITORY_GRID |-> IF i = 4 THEN 5 ELSE 0]
\* allies masks: none, entity 0, entities 0 and 2
AllyMasks == {0, 1, 5}

InitStrength ==
    /\ time = 0
    /\ alive = Gangs
    /\ \E held \in {{}, {3}, {3, 5}}, w0 \in {Plain.ws, Strong.ws}, w1 \in {Plain.ws, Strong.ws},
          m \in AllyMasks, r \in RepChoices,
          st \in {NoStability, HeldStability, HalfStability} :
          /\ territories = [g \in Gangs |-> IF g = 1 THEN held ELSE {3}]
          /\ warStrength = [g \in Gangs |-> IF g = 0 THEN w0 ELSE IF g = 1 THEN w1 ELSE Plain.ws]
          /\ allies = [g \in Gangs |-> IF g = 1 THEN m ELSE 0]
          /\ reputation = [g \in Gangs |-> IF g = 1 THEN r ELSE 0]
          /\ stability = [g \in Gangs |-> IF g = 1 THEN st ELSE NoStability]
    /\ activeConflicts = [g \in Gangs |-> {}]
    /\ casualties = [g \in Gangs |-> 0]
    /\ victories = [g \in Gangs |-> 0]
    /\ conflictCache = <<>>
    /\ err = "none"
    /\ hostOps = 0
    /\ calls = 0
    /\ lastCall = NoCall
    /\ host = "ArgosAdvanced"
    /\ power = [g \in Gangs |-> NoPower]
    /\ conspiracy = [g \in Gangs |-> {}]
    /\ supportOf = [g \in Gangs |-> 0]
    /\ conspiracyCache = {}
    /\ laxCache = {}
    /\ store = NoStore
    /\ out = NoOut

StrengthCall ==
    /\ calls < MaxCalls
    /\ \E gangster \in Gangs :
          out' = [NoOut EXCEPT !.strength = calculateWarStrength(Fields, gangster),
                               !.of = gangster]
    /\ calls' = calls + 1
    /\ UNCHANGED <<time, alive, territories, stability, activeConflicts, warStrength,
                   allies, casualties, victories, reputation, conflictCache, err,
                   hostOps, lastCall, simVars, store>>

NextStrength == StrengthCall

SpecStrength == InitStrength /\ [][NextStrength]_vars

\* ---------------------------------------------------------------------
\* PowerSystem (src/src/systems/GroupDynamicsSystem.ts)
\*
\* influence is in units of 1/1600 and loyalty in units of 1/10000, so
\* that `*= 0.5` and `*= 0.7` are exact on the values of the population.
\* A support value is the pair [num, den] standing for
\* num / (SupportDen * den): den = 0 is the division by zero of the code
\* (NaN for 0 / 0).  The allies and rivals arrays are the sets of their
\* entries.
\* ---------------------------------------------------------------------
InfluenceDen == 16 * 100
LoyaltyDen == 100 * 100
\* the denominator of one term of the support sum
SupportDen == 10 * InfluenceDen * LoyaltyDen

\* getGroupMembers(groupId): not part of the class; the entities of the
\* group, in query order
getGroupMembers(D, groupId) ==
    SelectSeq(Ascending(alive), LAMBDA a : D[a].groupId = groupId)

\* findGroupLeader(groupId): not part of the class; the member whose role
\* is 1, null when there is none
findGroupLeader(D, groupId) ==
    LET leaders == {a \in alive : D[a].groupId = groupId /\ D[a].role = 1}
    IN  IF leaders = {} THEN NoGang
        ELSE CHOOSE a \in leaders : \A b \in leaders : a <= b

\* hasAllianceTie / hasRivalry(member, challenger): not part of the class;
\* the challenger is among the member's allies / rivals
hasAllianceTie(D, member, challenger) == challenger \in D[member].allies
hasRivalry(D, member, challenger) == challenger \in D[member].rivals

\* the loop of calculateSupport in which only the challenger is skipped
RECURSIVE SupportFrom_CountsLeader(_, _, _, _, _)
SupportFrom_CountsLeader(D, groupMembers, k, challenger, leader) ==
    IF k > Len(groupMembers) THEN 0
    ELSE LET member == groupMembers[k]
             influenceDiff == D[challenger].influence - D[leader].influence
             personalTies == IF hasAllianceTie(D, member, challenger)
                             THEN 2 * InfluenceDen ELSE 0
             rivalryPenalty == IF hasRivalry(D, member, challenger)
                               THEN -3 * InfluenceDen ELSE 0
         IN  IF member = challenger
             THEN SupportFrom_CountsLeader(D, groupMembers, k + 1, challenger, leader)
             ELSE (influenceDiff * 3 + personalTies + rivalryPenalty)
                      * (LoyaltyDen - D[member].loyalty)
                  + SupportFrom_CountsLeader(D, groupMembers, k + 1, challenger, leader)

\* `for (const member of groupMembers)`, members k.. : the sum of the
\* terms, over SupportDen
RECURSIVE SupportFrom(_, _, _, _, _)
SupportFrom(D, groupMembers, k, challenger, leader) ==
    IF k > Len(groupMembers) THEN 0
    ELSE LET member == groupMembers[k]
             loyaltyFactor == D[member].loyalty
             influenceDiff == D[challenger].influence - D[leader].influence
             personalTies == IF hasAllianceTie(D, member, challenger)
                             THEN 2 * InfluenceDen ELSE 0
             rivalryPenalty == IF hasRivalry(D, member, challenger)
                               THEN -3 * InfluenceDen ELSE 0
         IN  IF member = challenger \/ member = leader
             THEN SupportFrom(D, groupMembers, k + 1, challenger, leader)
             ELSE (influenceDiff * 3 + personalTies + rivalryPenalty)
                      * (LoyaltyDen - loyaltyFactor)
                  + SupportFrom(D, groupMembers, k + 1, challenger, leader)

\* PowerSystem.calculateSupport(challenger, leader)
PowerSystem_calculateSupport(D, challenger, leader) ==
    LET groupMembers == getGroupMembers(D, D[challenger].groupId)
    IN  [num |-> SupportFrom(D, groupMembers, 1, challenger, leader),
         den |-> Len(groupMembers) - 2]

\* the literal 0.6 of handleLeadershipChallenge, over SupportDen
Gate == 6 * InfluenceDen * LoyaltyDen

\* `support > 0.6` on a support value: a quotient by zero is NaN (0 / 0,
\* greater than nothing) or an infinity
ExceedsGate(support) ==
    IF support.den > 0 THEN support.num > Gate * support.den
    ELSE IF support.den = 0 THEN support.num > 0
    ELSE support.num < Gate * support.den

\* transferLeadership(agent, currentLeader, groupId): not part of the
\* class; the challenger takes the leader's role (spec 4.5)
transferLeadership(D, agent, currentLeader, groupId) ==
    [D EXCEPT ![currentLeader].role = 0, ![agent].role = 1]

\* handleFailedChallenge(agent, currentLeader): not part of the class, no
\* effect on the fields modelled
handleFailedChallenge(D, agent, currentLeader) == D

\* handleLeadershipChallenge(agent, power, group): the tables after the
\* call, the branch taken and the support computed
handleLeadershipChallenge(D, agent) ==
    LET currentLeader == findGroupLeader(D, D[agent].groupId)
    IN  IF ~Truthy(currentLeader)
        THEN [D |-> D, branch |-> "returned", leader |-> currentLeader,
              support |-> NoOut.support]
        ELSE LET support == PowerSystem_calculateSupport(D, agent, currentLeader)
             IN  IF ExceedsGate(support)
                    /\ D[agent].influence > D[currentLeader].influence
                 THEN [D |-> [transferLeadership(D, agent, currentLeader, D[agent].groupId)
                                 EXCEPT ![agent].lastBetrayal = 0],
                       branch |-> "successful", leader |-> currentLeader,
                       support |-> support]
                 ELSE [D |-> handleFailedChallenge(
                                 [D EXCEPT ![agent].influence = @ \div 2,
                                           ![agent].loyalty = (@ * 7) \div 10],
                                 agent, currentLeader),
                       branch |-> "failed", leader |-> currentLeader,
                       support |-> support]

\* the variables of the TerritorySystem and of its host
worldVars == <<time, alive, territories, stability, activeConflicts, warStrength,
               allies, casualties, victories, reputation, conflictCache, err,
               hostOps, lastCall>>

\* a world whose territory and conspiracy systems have nothing to do:
\* every entity exists and holds a slot of its own
QuietWorld ==
    /\ time = 0
    /\ alive = Gangs
    /\ territories = [g \in Gangs |-> {g + 1}]
    /\ warStrength = [g \in Gangs |-> Plain.ws]
    /\ reputation = [g \in Gangs |-> Plain.rep]
    /\ stability = [g \in Gangs |-> Plain.stab]
    /\ allies = [g \in Gangs |-> Plain.allies]
    /\ activeConflicts = [g \in Gangs |-> {}]
    /\ casualties = [g \in Gangs |-> 0]
    /\ victories = [g \in Gangs |-> 0]
    /\ conflictCache = <<>>
    /\ err = "none"
    /\ hostOps = 0
    /\ calls = 0
    /\ lastCall = NoCall
    /\ host = "Simulation"
    /\ power = [g \in Gangs |-> NoPower]
    /\ conspiracy = [g \in Gangs |-> {}]
    /\ supportOf = [g \in Gangs |-> 0]
    /\ conspiracyCache = {}
    /\ laxCache = {}
    /\ out = NoOut

\* ---------------------------------------------------------------------
\* The methods of the PowerSystem applied directly, on agents as update()
\* passes them (role !== 1), over groups of four, three and two members
\* ---------------------------------------------------------------------
\* group ids per agent: one group; agents 0..2 and the rest; agents 0, 1
\* and the rest
GroupLayouts ==
    { [g \in Gangs |-> 1],
      [g \in Gangs |-> IF g < 3 THEN 1 ELSE 2],
      [g \in Gangs |-> IF g < 2 THEN 1 ELSE 2] }

\* influence 0.5, 3.0, 3.5; loyalty 0.2, 0.5
InfluenceChoices == {800, 4800, 5600}
LoyaltyChoices == {2000, 5000}

InitPower ==
    /\ QuietWorld
    /\ \E layout \in GroupLayouts, lead \in {0, 1},
          i1 \in InfluenceChoices, i2 \in InfluenceChoices,
          l3 \in LoyaltyChoices, tied \in BOOLEAN, rival \in BOOLEAN :
          store = [NoStore EXCEPT !.dynamics = [g \in Gangs |->
              [influence |-> IF g = 1 THEN i1 ELSE IF g = 2 THEN i2 ELSE 800,
               loyalty |-> IF g = 3 THEN l3 ELSE 2000,
               allies |-> IF g = 3 /\ tied THEN {2} ELSE {},
               rivals |-> IF g = 0 /\ rival THEN {2} ELSE {},
               lastBetrayal |-> 1001,
               groupId |-> layout[g],
               \* group 1 is led by agent 0 or 1; group 2 by agent 2
               \* when it holds it, by nobody otherwise
               role |-> IF (layout[g] = 1 /\ g = lead) \/ (layout[g] = 2 /\ g = 2)
                        THEN 1 ELSE 0]]]

\* a direct call of calculateSupport(challenger, leader of its group)
SupportCall ==
    /\ calls < MaxCalls
    /\ \E challenger \in alive :
          /\ store.dynamics[challenger].role # 1
          /\ findGroupLeader(store.dynamics, store.dynamics[challenger].groupId) # NoGang
          /\ LET leader == findGroupLeader(store.dynamics,
                                           store.dynamics[challenger].groupId)
             IN  out' = [NoOut EXCEPT
                            !.challenger = challenger, !.leader = leader,
                            !.branch = "support",
                            !.support = PowerSystem_calculateSupport(
                                            store.dynamics, challenger, leader)]
    /\ calls' = calls + 1
    /\ UNCHANGED <<worldVars, simVars, store>>

\* a direct call of handleLeadershipChallenge(agent, power, group)
ChallengeCall ==
    /\ calls < MaxCalls
    /\ \E agent \in alive :
          /\ store.dynamics[agent].role # 1
          /\ \E R \in {handleLeadershipChallenge(store.dynamics, agent)} :
                /\ store' = [store EXCEPT !.dynamics = R.D]
                /\ out' = [NoOut EXCEPT !.challenger = agent, !.leader = R.leader,
                                        !.branch = R.branch, !.support = R.support]
    /\ calls' = calls + 1
    /\ UNCHANGED <<worldVars, simVars>>

NextPower == SupportCall \/ ChallengeCall

SpecPower == InitPower /\ [][NextPower]_vars

\* ---------------------------------------------------------------------
\* ui32 bitfields under the int32 operators of JavaScript
\*
\* A ui32 field, and the int32 value an operator makes of it, is the set
\* of the indices of its set bits, bit 31 being the sign bit of the int32.
\* ---------------------------------------------------------------------
\* the width of a Types.ui32 field and of an int32
WORD == 32
Word == 0..(WORD - 1)

\* `1 << i`: the shift count is taken modulo 32
Shl1(i) == {i % WORD}
\* `a | b`, `a & b`, `~a`
Or(a, b) == a \cup b
And(a, b) == a \cap b
Not(a) == Word \ a
\* `mask >> 1`: the sign-propagating shift, bit 31 stays as it was
Sar1(mask) == {i - 1 : i \in mask \ {0}} \cup (mask \cap {WORD - 1})

\* one iteration of
\*   while (mask) { if (mask & 1) visit(index); mask >>= 1; index++ }
\* the loop of calculateWarStrength (allyMask), maintainControl
\* (controlMask), updateIntelNetworks and detectCompromisedInformants
\* (informantMask)
ScanBody(scan) ==
    [scan EXCEPT !.visited = IF And(scan.mask, Shl1(0)) # {}
                             THEN Append(@, scan.index) ELSE @,
                 !.mask = Sar1(@),
                 !.index = @ + 1]

\* the masks an informants field may hold: none, bit 0, bits 0 and 2,
\* bits 3 and 30, bit 31, bits 1 and 31
ScanMasks == {{}, {0}, {0, 2}, {3, 30}, {31}, {1, 31}}

InitScan ==
    /\ QuietWorld
    /\ \E informants \in ScanMasks :
          store = [NoStore EXCEPT !.intel = [g \in Gangs |->
                      [informants |-> informants, compromised |-> {}]]]

\* a loop starts on a copy of the field it scans
ScanStart ==
    /\ store.scan.loop = "none"
    /\ \E loop \in {"allyMask", "controlMask", "informantMask"}, g \in alive :
          store' = [store EXCEPT !.scan =
              [loop |-> loop,
               of |-> IF loop = "allyMask"
                      THEN {i \in 0..30 : (allies[g] \div (2 ^ i)) % 2 = 1}
                      ELSE IF loop = "controlMask" THEN territories[g]
                      ELSE store.intel[g].informants,
               mask |-> IF loop = "allyMask"
                        THEN {i \in 0..30 : (allies[g] \div (2 ^ i)) % 2 = 1}
                        ELSE IF loop = "controlMask" THEN territories[g]
                        ELSE store.intel[g].informants,
               index |-> 0, visited |-> <<>>]]
    /\ UNCHANGED <<worldVars, calls, simVars, out>>

\* the loop condition holds and the body runs once
ScanIter ==
    /\ store.scan.loop # "none"
    /\ store.scan.mask # {}
    /\ store.scan.index < MaxScan
    /\ store' = [store EXCEPT !.scan = ScanBody(@)]
    /\ UNCHANGED <<worldVars, calls, simVars, out>>

NextScan == ScanStart \/ ScanIter

SpecScan == InitScan /\ [][NextScan]_vars

\* ---------------------------------------------------------------------
\* Single-bit operations on the relationship sets of the IntelNetwork
\* (HitSystem.ts) and of the UndergroundEconomy (src/unnamed/part_001)
\* ---------------------------------------------------------------------
\* the membership test `mask & (1 << i)` of an if
Contains(mask, i) == And(mask, Shl1(i)) # {}

\* the marking of detectCompromisedInformants with `=` in place of `|=`
markCompromised_Assigns(intel, index) ==
    [intel EXCEPT !.compromised = Shl1(index),
                  !.informants = And(@, Not(Shl1(index)))]

\* detectCompromisedInformants, lines 231-233, for a compromised
\* informant: mark it, remove it from the active informants (the intel
\* array is not modelled)
markCompromised(intel, index) ==
    [intel EXCEPT !.compromised = Or(@, Shl1(index)),
                  !.informants = And(@, Not(Shl1(index)))]

\* findPotentialContacts(conspiracy) and canTrust(operator, contact): not
\* part of the class; the candidates and the trusted among them are
\* attributes of the population
findPotentialContacts(S, operator) == S.potentialContacts
canTrust(S, operator, contact) == contact \in S.trusted

\* `for (const contact of potentialContacts)`, contacts k..; U is the
\* operator's UndergroundEconomy, used the indices shifted by so far;
\* learnMarketsFromContact is not part of the class
RECURSIVE ContactsFrom(_, _, _, _, _)
ContactsFrom(S, operator, potentialContacts, k, R) ==
    IF k > Len(potentialContacts) THEN R
    ELSE LET contact == potentialContacts[k]
         IN  IF canTrust(S, operator, contact)
             THEN ContactsFrom(S, operator, potentialContacts, k + 1,
                               [R EXCEPT !.U.contacts = Or(@, Shl1(contact)),
                                         !.used = @ \cup {contact}])
             ELSE ContactsFrom(S, operator, potentialContacts, k + 1, R)

\* seekNewContacts(operator, underground)
seekNewContacts(S, operator) ==
    ContactsFrom(S, operator, findPotentialContacts(S, operator), 1,
                 [U |-> S.underground[operator], used |-> {}])

\* the literal 100 of findSuitableMarket
DISCOVERY_TTL == 100

\* evaluateMarketSuitability(marketId, operator): not part of the class;
\* a market's score is an attribute of the market
evaluateMarketSuitability(marketId, operator) == 1 + (marketId % 7)

\* `for (const marketId of this.activeMarkets)`, markets k.. in insertion
\* order
RECURSIVE MarketsFrom(_, _, _, _, _)
MarketsFrom(marketAccess, activeMarkets, k, operator, R) ==
    IF k > Len(activeMarkets) THEN R
    ELSE LET marketId == activeMarkets[k]
             score == evaluateMarketSuitability(marketId, operator)
             R1 == [R EXCEPT !.used = @ \cup {marketId}]
         IN  IF Contains(marketAccess, marketId) /\ score > R.bestScore
             THEN MarketsFrom(marketAccess, activeMarkets, k + 1, operator,
                              [R1 EXCEPT !.bestMarket = marketId, !.bestScore = score])
             ELSE MarketsFrom(marketAccess, activeMarkets, k + 1, operator, R1)

\* the entry of the discovery cache under the key "operator_marketAccess"
Discovered(cache, operator, marketAccess) ==
    {c \in cache : c.operator = operator /\ c.marketAccess = marketAccess}

\* findSuitableMarket that stamps the entry again when it serves it
findSuitableMarket_Touch(S, operator, now) ==
    LET marketAccess == S.underground[operator].marketAccess
        key == Discovered(S.discoveryCache, operator, marketAccess)
    IN  IF key # {} /\ (CHOOSE c \in key : TRUE).timestamp > now - DISCOVERY_TTL
        THEN [cache |-> (S.discoveryCache \ key) \cup
                           {[c EXCEPT !.timestamp = now] : c \in key},
              market |-> (CHOOSE c \in key : TRUE).market,
              used |-> {}]
        ELSE LET R == MarketsFrom(marketAccess, S.activeMarkets, 1, operator,
                                  [bestMarket |-> NoGang, bestScore |-> 0, used |-> {}])
             IN  [cache |-> (S.discoveryCache \ key) \cup
                               {[operator |-> operator, marketAccess |-> marketAccess,
                                 market |-> R.bestMarket, timestamp |-> now]},
                  market |-> R.bestMarket, used |-> R.used]

\* findSuitableMarket(operator, underground): the cache after the call,
\* the market returned (null is NoGang) and the indices shifted by
findSuitableMarket(S, operator, now) ==
    LET marketAccess == S.underground[operator].marketAccess
        key == Discovered(S.discoveryCache, operator, marketAccess)
    IN  IF key # {} /\ (CHOOSE c \in key : TRUE).timestamp > now - DISCOVERY_TTL
        THEN [cache |-> S.discoveryCache, market |-> (CHOOSE c \in key : TRUE).market,
              used |-> {}]
        ELSE LET R == MarketsFrom(marketAccess, S.activeMarkets, 1, operator,
                                  [bestMarket |-> NoGang, bestScore |-> 0, used |-> {}])
             IN  [cache |-> (S.discoveryCache \ key) \cup
                               {[operator |-> operator, marketAccess |-> marketAccess,
                                 market |-> R.bestMarket, timestamp |-> now]},
                  market |-> R.bestMarket, used |-> R.used]

\* informants, potential contacts (entity ids) and active markets (entity
\* ids) of the population
InformantChoices == {{0, 2}, {3, 30}, {1, 31}}
ContactLists == {<<5>>, <<31, 5>>, <<32>>, <<37, 5>>}
MarketLists == {<<3, 0>>, <<35, 3>>, <<32>>}

InitBits ==
    /\ QuietWorld
    /\ \E informants \in InformantChoices, potentialContacts \in ContactLists,
          activeMarkets \in MarketLists, marketAccess \in {{3}, {0, 3}} :
          store = [NoStore EXCEPT
              !.intel = [g \in Gangs |-> [informants |-> informants, compromised |-> {}]],
              !.underground = [g \in Gangs |-> [marketAccess |-> marketAccess,
                                                contacts |-> {1}]],
              !.potentialContacts = potentialContacts,
              !.trusted = {5, 31, 32},
              !.activeMarkets = activeMarkets]

\* one iteration of the loop of detectCompromisedInformants that finds
\* the informant at index compromised
MarkCompromised ==
    /\ calls < MaxCalls
    /\ \E operator \in alive :
          \E index \in store.intel[operator].informants :
              /\ store' = [store EXCEPT !.intel[operator] = markCompromised(@, index)]
              /\ out' = [NoOut EXCEPT !.op = "markCompromised", !.operator = operator,
                                      !.indices = {index}]
    /\ calls' = calls + 1
    /\ UNCHANGED <<worldVars, simVars>>

\* a call of seekNewContacts(operator, underground)
SeekCall ==
    /\ calls < MaxCalls
    /\ \E operator \in alive :
          \E R \in {seekNewContacts(store, operator)} :
              /\ store' = [store EXCEPT !.underground[operator] = R.U]
              /\ out' = [NoOut EXCEPT !.op = "seekNewContacts", !.operator = operator,
                                      !.indices = R.used]
    /\ calls' = calls + 1
    /\ UNCHANGED <<worldVars, simVars>>

\* a call of findSuitableMarket(operator, underground)
MarketCall ==
    /\ calls < MaxCalls
    /\ \E operator \in alive :
          \E R \in {findSuitableMarket(store, operator, time)} :
              /\ store' = [store EXCEPT !.discoveryCache = R.cache]
              /\ out' = [NoOut EXCEPT !.op = "findSuitableMarket", !.operator = operator,
                                      !.indices = R.used, !.market = R.market]
    /\ calls' = calls + 1
    /\ UNCHANGED <<worldVars, simVars>>

NextBits == MarkCompromised \/ SeekCall \/ MarketCall

SpecBits == InitBits /\ [][NextBits]_vars

\* ---------------------------------------------------------------------
\* The component store (spec 4.1) and Simulation.createInitialAgents
\*
\* store.components[kind] is the table of a kind: a function from the
\* entities holding the kind to their component values.  mood and
\* influence are in tenths.
\* ---------------------------------------------------------------------
\* a component as defineComponent creates it: every field zero
Zero(kind) ==
    IF kind = "EmotionalCore" THEN [mood |-> 0, energy |-> 0, socialDrive |-> 0]
    ELSE IF kind = "PowerDynamics" THEN [influence |-> 0, ambition |-> 0]
    ELSE IF kind = "TerritoryControl" THEN [territories |-> {}]
    ELSE IF kind = "UndergroundEconomy" THEN [marketAccess |-> {}]
    ELSE [membershipFlags |-> {}]

Holds(S, entity, kind) == entity \in DOMAIN S.components[kind]

\* world.createEntity(): ids are dense and start at 0
createEntity(S) == [S EXCEPT !.nextEntity = @ + 1]

\* add that initialises the component again when it is present
add_Overwrites(S, entity, kind) ==
    [S |-> [S EXCEPT !.components[kind] =
                [e \in DOMAIN @ \cup {entity} |-> IF e = entity THEN Zero(kind) ELSE @[e]]],
     error |-> "none"]

\* Component.add(entity): DuplicateComponent when the entity holds the
\* kind, the zero component otherwise
add(S, entity, kind) ==
    IF Holds(S, entity, kind) THEN [S |-> S, error |-> "DuplicateComponent"]
    ELSE [S |-> [S EXCEPT !.components[kind] =
                    [e \in DOMAIN @ \cup {entity} |->
                        IF e = entity THEN Zero(kind) ELSE @[e]]],
          error |-> "none"]

\* Component.get(entity): the component, MissingComponent when absent
get(S, entity, kind) ==
    IF Holds(S, entity, kind)
    THEN [value |-> S.components[kind][entity], error |-> "none"]
    ELSE [value |-> <<>>, error |-> "MissingComponent"]

\* detach / remove(entity): MissingComponent when absent, else the
\* entity leaves the table
remove(S, entity, kind) ==
    IF ~Holds(S, entity, kind) THEN [S |-> S, error |-> "MissingComponent"]
    ELSE [S |-> [S EXCEPT !.components[kind] =
                    [e \in DOMAIN @ \ {entity} |-> @[e]]],
          error |-> "none"]

\* query(requiredKinds): the entities holding all the kinds, ascending
query(S, requiredKinds) ==
    Ascending({e \in 0..(S.nextEntity - 1) :
                  \A kind \in requiredKinds : Holds(S, e, kind)})

\* the body of the loop of createInitialAgents writing through the
\* handles of the first entity
createAgent_FirstHandle(S, random) ==
    LET agent == S.nextEntity
        S1 == createEntity(S)
        S2 == add(S1, agent, "EmotionalCore").S
        S3 == add(S2, agent, "PowerDynamics").S
        S4 == add(S3, agent, "TerritoryControl").S
        S5 == add(S4, agent, "UndergroundEconomy").S
        S6 == add(S5, agent, "ConspiracyState").S
    IN  [S6 EXCEPT
            !.components["EmotionalCore"][0] =
                [@ EXCEPT !.mood = random.mood, !.energy = random.energy,
                          !.socialDrive = random.socialDrive],
            !.components["PowerDynamics"][0] =
                [@ EXCEPT !.influence = random.influence, !.ambition = random.ambition],
            !.components["TerritoryControl"][0] =
                [@ EXCEPT !.territories = Shl1(random.slot)]]

\* the body of the loop of createInitialAgents (lines 43-64): a new
\* entity, the five kinds, the starting values; random holds the values
\* the Math.random() calls gave
createAgent(S, random) ==
    LET agent == S.nextEntity
        S1 == createEntity(S)
        S2 == add(S1, agent, "EmotionalCore").S
        S3 == add(S2, agent, "PowerDynamics").S
        S4 == add(S3, agent, "TerritoryControl").S
        S5 == add(S4, agent, "UndergroundEconomy").S
        S6 == add(S5, agent, "ConspiracyState").S
    IN  [S6 EXCEPT
            !.components["EmotionalCore"][agent] =
                [@ EXCEPT !.mood = random.mood, !.energy = random.energy,
                          !.socialDrive = random.socialDrive],
            !.components["PowerDynamics"][agent] =
                [@ EXCEPT !.influence = random.influence, !.ambition = random.ambition],
            !.components["TerritoryControl"][agent] =
                [@ EXCEPT !.territories = Shl1(random.slot)]]

\* what the Math.random() calls of one iteration may give
RandomDraws ==
    { [mood |-> 5, energy |-> 3, socialDrive |-> 7, influence |-> 1, ambition |-> 4,
       slot |-> 3],
      [mood |-> -5, energy |-> 8, socialDrive |-> 2, influence |-> 2, ambition |-> 9,
       slot |-> 5] }

\* the kinds the host detaches, reads and attaches again
HostKinds == {"EmotionalCore", "TerritoryControl"}

InitStore ==
    /\ QuietWorld
    /\ store = NoStore

\* one iteration of the loop of createInitialAgents
CreateAgent ==
    /\ store.nextEntity < NumGangs
    /\ \E random \in RandomDraws :
          /\ store' = createAgent(store, random)
          /\ out' = [NoOut EXCEPT !.op = "createAgent", !.operator = store.nextEntity,
                                  !.value = random]
    /\ UNCHANGED <<worldVars, calls, simVars>>

\* the host detaches a component of an entity
Detach ==
    /\ hostOps < MaxHostOps
    /\ \E entity \in 0..(store.nextEntity - 1), kind \in HostKinds :
          \E R \in {remove(store, entity, kind)} :
              /\ store' = R.S
              /\ out' = [NoOut EXCEPT !.op = "detach", !.operator = entity,
                                      !.kind = kind, !.error = R.error]
    /\ hostOps' = hostOps + 1
    /\ UNCHANGED <<time, alive, territories, stability, activeConflicts, warStrength,
                   allies, casualties, victories, reputation, conflictCache, err,
                   lastCall, calls, simVars>>

\* a system reads a component of an entity
GetCall ==
    /\ calls < MaxCalls
    /\ \E entity \in 0..(store.nextEntity - 1), kind \in HostKinds :
          \E R \in {get(store, entity, kind)} :
              out' = [NoOut EXCEPT !.op = "get", !.operator = entity, !.kind = kind,
                                   !.value = R.value, !.error = R.error]
    /\ calls' = calls + 1
    /\ UNCHANGED <<worldVars, simVars, store>>

\* the host attaches a kind to an entity
AddCall ==
    /\ calls < MaxCalls
    /\ \E entity \in 0..(store.nextEntity - 1), kind \in HostKinds :
          \E R \in {add(store, entity, kind)} :
              /\ store' = R.S
              /\ out' = [NoOut EXCEPT !.op = "add", !.operator = entity, !.kind = kind,
                                      !.error = R.error]
    /\ calls' = calls + 1
    /\ UNCHANGED <<worldVars, simVars>>

\* a system runs its query
QueryCall ==
    /\ calls < MaxCalls
    /\ \E requiredKinds \in {HostKinds, {"TerritoryControl"}} :
          out' = [NoOut EXCEPT !.op = "query", !.query = query(store, requiredKinds)]
    /\ calls' = calls + 1
    /\ UNCHANGED <<worldVars, simVars, store>>

NextStore == CreateAgent \/ Detach \/ GetCall \/ AddCall \/ QueryCall

SpecStore == InitStore /\ [][NextStore]_vars

\* ---------------------------------------------------------------------
\* EmotionalBehaviorSystem.recordInteraction: the interaction memory
\*
\* store.emotion[g] is the memory of g's EmotionalCore; store.recorded[g]
\* lists the interactions g recorded, oldest first.
\* ---------------------------------------------------------------------
\* recordInteraction writing the result one slot further
recordInteraction_ResultAtNext(emotion, other, result) ==
    LET slot == emotion.nextSlot
    IN  [recentInteractions |-> [emotion.recentInteractions EXCEPT ![slot] = other],
         interactionResults |->
             [emotion.interactionResults EXCEPT ![(slot + 1) % RING] = result],
         nextSlot |-> (slot + 1) % RING]

\* recordInteraction(emotion, other, result)
recordInteraction(emotion, other, result) ==
    LET slot == emotion.nextSlot
    IN  [recentInteractions |-> [emotion.recentInteractions EXCEPT ![slot] = other],
         interactionResults |-> [emotion.interactionResults EXCEPT ![slot] = result],
         nextSlot |-> (slot + 1) % RING]

\* the interactions doSocialInteraction may record: nearby[0] and
\* success ? 1 : -1
Interactions ==
    { [entity |-> 0, other |-> 2, result |-> 1],
      [entity |-> 0, other |-> 3, result |-> -1],
      [entity |-> 1, other |-> 0, result |-> -1] }

InitRing ==
    /\ QuietWorld
    /\ store = NoStore

\* doSocialInteraction records the interaction it just had
RecordCall ==
    /\ \A g \in Gangs : Len(store.recorded[g]) < MaxRecordings
    /\ \E i \in Interactions :
          /\ store' = [store EXCEPT
                !.emotion[i.entity] = recordInteraction(@, i.other, i.result),
                !.recorded[i.entity] = Append(@, <<i.other, i.result>>)]
          /\ out' = [NoOut EXCEPT !.op = "recordInteraction", !.operator = i.entity,
                                  !.value = <<i.other, i.result>>]
    /\ UNCHANGED <<worldVars, calls, simVars>>

NextRing == RecordCall

SpecRing == InitRing /\ [][NextRing]_vars

\* ---------------------------------------------------------------------
\* UndergroundSystem.update() over the ticks of the world
\*
\* store.activeMarkets is the Set in insertion order, store.raided the
\* markets isMarketCompromised holds of, store.hits the number of times
\* the seeker's cache entry was served since it was stamped (2 stands for
\* two or more).
\* ---------------------------------------------------------------------
\* the operator for which needsBlackMarket can hold
Seeker == 1

\* the distinct values of a list
Range(list) == {list[i] : i \in 1..Len(list)}

\* the list without the values of a set, order kept
RECURSIVE Without(_, _)
Without(list, gone) ==
    IF list = <<>> THEN <<>>
    ELSE IF Head(list) \in gone THEN Without(Tail(list), gone)
    ELSE <<Head(list)>> \o Without(Tail(list), gone)

\* handleMarketRaid(marketId, market): the market counts as compromised
\* from now on
handleMarketRaid(S, marketId) == [S EXCEPT !.raided = @ \cup {marketId}]

\* updateBlackMarkets(): the active markets isMarketCompromised newly
\* holds of are raided
updateBlackMarkets(S, compromised) ==
    IF compromised \in Range(S.activeMarkets) THEN handleMarketRaid(S, compromised)
    ELSE S

\* considerNewMarket(operator, underground): the operator may open a
\* market, which it then has access to
considerNewMarket(S, operator, opened) ==
    IF opened = NoGang \/ opened \in Range(S.activeMarkets) THEN S
    ELSE [S EXCEPT !.activeMarkets = Append(@, opened),
                   !.underground[operator].marketAccess = Or(@, Shl1(opened))]

\* engageUnderground(operator, underground, economic): the trade changes
\* heat and security only
engageUnderground(S, operator, now, opened) ==
    LET R == findSuitableMarket(S, operator, now)
        hit == R.cache = S.discoveryCache
        S1 == [S EXCEPT !.discoveryCache = R.cache,
                        !.hits = IF hit THEN Min(@ + 1, 2) ELSE 0]
    IN  [S |-> IF Truthy(R.market) THEN S1 ELSE considerNewMarket(S1, operator, opened),
         market |-> R.market,
         branch |-> IF Truthy(R.market) THEN "trade" ELSE "consider",
         looked |-> IF hit THEN "hit" ELSE "computed",
         hits |-> S.hits]

\* handleInvestigation(operator, underground): the access bits of the
\* compromised markets are cleared (lines 180-188)
handleInvestigation(S, operator) ==
    [S EXCEPT !.underground[operator].marketAccess =
                  {i \in @ : i \notin S.raided}]

\* cleanupCompromisedMarkets(): the compromised markets leave the set
cleanupCompromisedMarkets(S) ==
    [S EXCEPT !.activeMarkets = Without(@, S.raided)]

\* update() (lines 40-65): markets first, then the operator's engagement
\* and heat, then the cleanup; c holds what the helpers outside the class
\* answer in this tick
UndergroundSystem_update(S, now, c) ==
    LET S1 == updateBlackMarkets(S, c.compromised)
        E == IF c.needs THEN engageUnderground(S1, Seeker, now, c.opened)
             ELSE [S |-> S1, market |-> NoGang, branch |-> "none", looked |-> "none",
                   hits |-> S1.hits]
        S2 == IF c.hot THEN handleInvestigation(E.S, Seeker) ELSE E.S
    IN  [E EXCEPT !.S = cleanupCompromisedMarkets(S2)]

\* the markets of the world and the market an operator may open
InitMarket ==
    /\ QuietWorld
    /\ \E activeMarkets \in {<<3, 5>>, <<5>>, <<>>} :
          store = [NoStore EXCEPT
              !.underground = [g \in Gangs |-> [marketAccess |-> {3, 5}, contacts |-> {1}]],
              !.activeMarkets = activeMarkets]

\* one Simulation.update() in which the UndergroundSystem alone has
\* work, with the world.tick() that ends it
UndergroundStep ==
    /\ time < MaxTime
    /\ \E compromised \in {NoGang} \cup {m \in Range(store.activeMarkets) :
                                             /\ hostOps < MaxHostOps
                                             /\ time <= MaxHostTime
                                             /\ m \notin store.raided},
          needs \in BOOLEAN, hot \in BOOLEAN,
          opened \in {NoGang} \cup {m \in {6} : calls < MaxCalls /\ time <= MaxHostTime} :
          /\ (hot => time <= MaxHostTime /\ (store.raided # {} \/ compromised # NoGang))
          /\ (opened # NoGang => needs)
          /\ \E R \in {UndergroundSystem_update(store, time,
                          [compromised |-> compromised, needs |-> needs, hot |-> hot,
                           opened |-> opened])} :
                /\ store' = R.S
                /\ out' = [NoOut EXCEPT !.op = "UndergroundSystem.update",
                                        !.operator = Seeker, !.market = R.market,
                                        !.branch = R.branch, !.looked = R.looked,
                                        !.hits = R.hits]
                /\ hostOps' = IF compromised # NoGang THEN hostOps + 1 ELSE hostOps
                /\ calls' = IF opened \in Range(R.S.activeMarkets) THEN calls + 1
                            ELSE calls
    /\ time' = time + 1
    /\ UNCHANGED <<alive, territories, stability, activeConflicts, warStrength,
                   allies, casualties, victories, reputation, conflictCache, err,
                   lastCall, simVars>>

NextMarket == UndergroundStep

SpecMarket == InitMarket /\ [][NextMarket]_vars

\* ---------------------------------------------------------------------
\* registerConflict and the resolution of a pending conflict applied
\* directly: the territory grid has found the gangs on a contested slot
\* ---------------------------------------------------------------------
InitFlags ==
    /\ time = 0
    /\ alive = Gangs
    /\ territories = [g \in Gangs |-> ClaimSlots]
    /\ activeConflicts = [g \in Gangs |-> {}]
    /\ warStrength = [g \in Gangs |-> Plain.ws]
    /\ stability = [g \in Gangs |-> Plain.stab]
    /\ allies = [g \in Gangs |-> Plain.allies]
    /\ reputation = [g \in Gangs |-> Plain.rep]
    /\ casualties = [g \in Gangs |-> 0]
    /\ victories = [g \in Gangs |-> 0]
    /\ conflictCache = <<>>
    /\ err = "none"
    /\ hostOps = 0
    /\ calls = 0
    /\ lastCall = NoCall
    /\ host = "ArgosAdvanced"
    /\ power = [g \in Gangs |-> NoPower]
    /\ conspiracy = [g \in Gangs |-> {}]
    /\ supportOf = [g \in Gangs |-> 0]
    /\ conspiracyCache = {}
    /\ laxCache = {}
    /\ store = NoStore
    /\ out = NoOut

\* updateTerritories calls registerConflict(gang1, gang2, territoryId)
RegisterCall ==
    /\ calls < MaxCalls
    /\ \E gang1 \in Gangs, gang2 \in Gangs, territoryId \in ClaimSlots :
          /\ gang1 # gang2
          /\ territoryId \in territories[gang1] \cap territories[gang2]
          /\ SetFields(registerConflict(Fields, gang1, gang2, territoryId, time))
          /\ out' = [NoOut EXCEPT !.op = "registerConflict"]
    /\ calls' = calls + 1
    /\ UNCHANGED <<time, alive, stability, warStrength, allies, hostOps, lastCall,
                   simVars, store>>

\* the decisive branch of resolveConflicts (lines 122-129) on a pending
\* entry, with the method the class defines
ResolveCall ==
    /\ \E k \in 1..Len(conflictCache) :
          LET conflict == conflictCache[k]
          IN  \E winner \in {conflict.g1, conflict.g2} :
                  \E G \in {resolveTerrritorialDispute(Fields, conflict.g1, conflict.g2,
                                                       conflict.territory, winner)} :
                      /\ SetFields([G EXCEPT !.cache = DeleteAt(@, k)])
                      /\ lastCall' = [gang1 |-> conflict.g1, gang2 |-> conflict.g2,
                                      territory |-> conflict.territory,
                                      winner |-> winner]
                      /\ out' = [NoOut EXCEPT !.op = "resolveTerrritorialDispute"]
    /\ UNCHANGED <<time, alive, stability, warStrength, allies, hostOps, calls,
                   simVars, store>>

NextFlags == RegisterCall \/ ResolveCall

SpecFlags == InitFlags /\ [][NextFlags]_vars

\* ---------------------------------------------------------------------
\* HitSystem.update(): the hit operations of the operators
\*
\* store.hitOps[g] is g's HitOperations: hitSquads, a ui16, and heatLevel
\* in hundredths.  A target is [gang, method, success]: the gang hit, the
\* method selectHitMethod picks and whether Math.random() fell below the
\* success chance.  The informant masks are empty, so updateIntelNetworks
\* has nothing to scan.
\* ---------------------------------------------------------------------
\* MAX_HEAT = 0.8 in hundredths
MAX_HEAT == 80

\* the heat a successful hit adds, by method (lines 169-182)
MethodHeat(method) == IF method = 0 THEN 20 ELSE IF method = 1 THEN 40 ELSE 60

\* successfulHit(operator, target, method)
successfulHit(W, operator, target) ==
    [W EXCEPT !.hitOps[operator].heatLevel = @ + MethodHeat(target.method),
              !.cas[target.gang] = (@ + 1) % UI16,
              !.ws[target.gang] = (@ * 9) \div 10]

\* failedHit(operator, target, method)
failedHit(W, operator, target) ==
    [W EXCEPT !.hitOps[operator].heatLevel = @ + 40,
              !.ws[target.gang] = (@ * 11) \div 10]

\* executeHit(operator, target, opportunity, hits): `hits.hitSquads--` on
\* a ui16
executeHit(W, operator, target) ==
    LET W1 == IF target.success THEN successfulHit(W, operator, target)
              ELSE failedHit(W, operator, target)
    IN  [W1 EXCEPT !.hitOps[operator].hitSquads = (@ - 1) % UI16,
                   !.executed[operator] = @ + 1]

\* `for (const target of targets)` of evaluateHitOpportunities, targets
\* k..; the list holds the targets that pass the test of line 127
RECURSIVE TargetsFrom(_, _, _, _)
TargetsFrom(W, operator, targets, k) ==
    IF k > Len(targets) THEN W
    ELSE TargetsFrom(executeHit(W, operator, targets[k]), operator, targets, k + 1)

evaluateHitOpportunities(W, operator, targets) == TargetsFrom(W, operator, targets, 1)

\* manageHeatLevel(operator, hits, warfare) of the HitSystem, with no
\* protection
HitSystem_manageHeatLevel(W, operator) ==
    [W EXCEPT !.hitOps[operator].heatLevel = (@ * 95) \div 100]

\* the loop of update() (lines 47-62), operators k..
RECURSIVE OperatorsFrom(_, _, _, _)
OperatorsFrom(W, order, k, targetsOf) ==
    IF k > Len(order) THEN W
    ELSE LET operator == order[k]
             hits == W.hitOps[operator]
             W1 == IF hits.hitSquads > 0 /\ hits.heatLevel < MAX_HEAT
                   THEN evaluateHitOpportunities(W, operator, targetsOf[operator])
                   ELSE W
         IN  OperatorsFrom(HitSystem_manageHeatLevel(W1, operator), order, k + 1,
                           targetsOf)

\* HitSystem.update() on the HitOperations table and the WarfareState of
\* the targets
HitSystem_update(hitOps, cas, ws, order, targetsOf) ==
    OperatorsFrom([hitOps |-> hitOps, cas |-> cas, ws |-> ws,
                   executed |-> [g \in DOMAIN hitOps |-> 0]],
                  order, 1, targetsOf)

\* the qualifying targets identifyTargets may give an operator in a tick
TargetLists ==
    { <<>>,
      <<[gang |-> 2, method |-> 0, success |-> TRUE]>>,
      <<[gang |-> 2, method |-> 0, success |-> TRUE],
        [gang |-> 3, method |-> 1, success |-> FALSE]>> }

InitHits ==
    /\ QuietWorld
    /\ \E s0 \in {0, 1, 2}, s1 \in {1, 3} :
          store = [NoStore EXCEPT !.hitOps =
                      [g \in Gangs |-> [hitSquads |-> IF g = 0 THEN s0
                                                      ELSE IF g = 1 THEN s1 ELSE 0,
                                        heatLevel |-> 0]]]

\* one HitSystem.update()
HitStep ==
    /\ calls < MaxCalls
    /\ \E t0 \in TargetLists, t1 \in TargetLists :
          \E R \in {HitSystem_update(store.hitOps, casualties, warStrength, gangsters,
                        [g \in Gangs |-> IF g = 0 THEN t0 ELSE IF g = 1 THEN t1
                                         ELSE <<>>])} :
              /\ store' = [store EXCEPT !.hitOps = R.hitOps]
              /\ casualties' = R.cas
              /\ warStrength' = R.ws
              /\ out' = [NoOut EXCEPT !.op = "HitSystem.update", !.value = R.executed]
    /\ calls' = calls + 1
    /\ UNCHANGED <<time, alive, territories, stability, activeConflicts, allies,
                   victories, reputation, conflictCache, err, hostOps, lastCall,
                   simVars>>

NextHits == HitStep

SpecHits == InitHits /\ [][NextHits]_vars

\* ---------------------------------------------------------------------
\* CrimeSystem.processLaundering
\*
\* store.laundering[g] is g's LaunderingNetwork with the protection array
\* of its CorruptionNetwork.  dirtyMoney, a ui32, is kept as its two
\* 16-bit halves [hi, lo]; auditRisk is in tenths; an amount is a number
\* of hundredths, so that the products of calculateSafeLaundering are
\* exact.
\* ---------------------------------------------------------------------
\* the ui32 that a store of lo - amount (hundredths) into the field gives:
\* the fraction is dropped, a negative integer wraps
StoreDifference(dirtyMoney, amount) ==
    LET left == dirtyMoney.lo * 100 - amount
        below == (-left) \div 100
        whole == (amount + 99) \div 100
    IN  IF dirtyMoney.hi = 0
        THEN IF left >= 0 THEN [hi |-> 0, lo |-> left \div 100]
             ELSE IF below = 0 THEN [hi |-> 0, lo |-> 0]
             ELSE [hi |-> UI16 - 1, lo |-> UI16 - below]
        ELSE IF dirtyMoney.lo >= whole THEN [dirtyMoney EXCEPT !.lo = @ - whole]
             ELSE [hi |-> dirtyMoney.hi - 1, lo |-> dirtyMoney.lo - whole + UI16]

\* `for (const protection of corruption.protection)`: the sum of the
\* array, in tenths of the bonus
RECURSIVE ProtectionFrom(_, _)
ProtectionFrom(protection, i) ==
    IF i > 7 THEN 0 ELSE protection[i] + ProtectionFrom(protection, i + 1)

\* calculateMethodCapacity(laundering): not part of the class; the
\* capacity of the methods of the mask together
RECURSIVE calculateMethodCapacity(_, _)
calculateMethodCapacity(L, i) ==
    IF i > 7 THEN 0
    ELSE (IF i \in L.methodMask THEN L.launderCapacity[i] ELSE 0)
         + calculateMethodCapacity(L, i + 1)

\* calculateSafeLaundering(laundering, corruption), in hundredths; a
\* dirtyMoney of 65536 or more is beyond every capacity
calculateSafeLaundering(L) ==
    LET riskFactor == 10 - L.auditRisk
        protectionBonus == ProtectionFrom(L.protection, 0)
        methodCapacity == calculateMethodCapacity(L, 0) * 100
    IN  IF L.dirtyMoney.hi > 0
        THEN IF riskFactor > 0 THEN methodCapacity ELSE Min(0, methodCapacity)
        ELSE Min(L.dirtyMoney.lo * riskFactor * (10 + protectionBonus), methodCapacity)

\* selectLaunderingMethods(amount, laundering): methods i.. of the mask
RECURSIVE MethodsFrom(_, _, _, _)
MethodsFrom(L, i, remaining, methods) ==
    IF i > 7 THEN methods
    ELSE IF i \in L.methodMask /\ L.launderCapacity[i] > 0
         THEN IF remaining - L.launderCapacity[i] * 100 <= 0
              THEN Append(methods, i)
              ELSE MethodsFrom(L, i + 1, remaining - L.launderCapacity[i] * 100,
                               Append(methods, i))
         ELSE MethodsFrom(L, i + 1, remaining, methods)

selectLaunderingMethods(amount, L) == MethodsFrom(L, 0, amount, <<>>)

\* `for (const method of methods)` of processLaundering, methods k..;
\* executes holds the methods executeLaundering succeeds with
RECURSIVE LaunderFrom(_, _, _, _, _)
LaunderFrom(R, safeAmount, methods, k, executes) ==
    IF k > Len(methods) THEN R
    ELSE LET method == methods[k]
             amount == Min(safeAmount, R.L.launderCapacity[method] * 100)
         IN  IF method \in executes
             THEN LaunderFrom(
                      [L |-> [R.L EXCEPT
                                 !.dirtyMoney = StoreDifference(@, amount),
                                 !.cleanMoney = (@ * 1000 + amount * 9) \div 1000],
                       removed |-> R.removed + amount],
                      safeAmount, methods, k + 1, executes)
             ELSE LaunderFrom(R, safeAmount, methods, k + 1, executes)

\* processLaundering(criminal, laundering, corruption): the component
\* after the call and the amount subtracted, in hundredths
processLaundering(L, executes) ==
    LET safeAmount == calculateSafeLaundering(L)
    IN  IF safeAmount > 0
        THEN LaunderFrom([L |-> L, removed |-> 0], safeAmount,
                         selectLaunderingMethods(safeAmount, L), 1, executes)
        ELSE [L |-> L, removed |-> 0]

\* the fronts of a criminal: two of 60, or one of 200
CapacityChoices ==
    { [i \in 0..7 |-> IF i < 2 THEN 60 ELSE 0],
      [i \in 0..7 |-> IF i = 0 THEN 200 ELSE 0] }

InitLaundering ==
    /\ QuietWorld
    /\ \E dirtyMoney \in {30, 100}, auditRisk \in {0, 5}, bribed \in {0, 5},
          launderCapacity \in CapacityChoices :
          store = [NoStore EXCEPT !.laundering = [g \in Gangs |->
                      [cleanMoney |-> 0,
                       dirtyMoney |-> [hi |-> 0, lo |-> dirtyMoney],
                       launderCapacity |-> launderCapacity,
                       auditRisk |-> auditRisk,
                       methodMask |-> {0, 1},
                       protection |-> [i \in 0..7 |-> IF i = 0 THEN bribed ELSE 0]]]]

\* the call of processLaundering in the loop of update() (lines 56-58)
LaunderCall ==
    /\ calls < MaxCalls
    /\ \E criminal \in {0, 1}, executes \in SUBSET {0, 1} :
          /\ store.laundering[criminal].dirtyMoney # [hi |-> 0, lo |-> 0]
          /\ \E R \in {processLaundering(store.laundering[criminal], executes)} :
                /\ store' = [store EXCEPT !.laundering[criminal] = R.L]
                /\ out' = [NoOut EXCEPT !.op = "processLaundering",
                                        !.operator = criminal,
                                        !.value = R.removed]
    /\ calls' = calls + 1
    /\ UNCHANGED <<worldVars, simVars>>

NextLaundering == LaunderCall

SpecLaundering == InitLaundering /\ [][NextLaundering]_vars

\* ---------------------------------------------------------------------
\* EmotionalBehaviorSystem.update()
\*
\* store.behavior[g] holds g's BehaviorState and the f32 fields of its
\* EmotionalCore: mood, socialDrive and focusState in hundredths, energy
\* and taskProgress in ten-thousandths.  The entities of the query are 0
\* and 1; store.near tells whether they are within distance 10.  For the
\* ticks followed sin(time * 0.001) is time * 0.001.
\* ---------------------------------------------------------------------
\* 1.0 in ten-thousandths
ONE == 10000

Clamp(x, lo, hi) == Max(lo, Min(hi, x))

\* the entities holding EmotionalCore and BehaviorState
Behaving == <<0, 1>>

\* `x >= 1` on an f32 sum: a sum whose exact value is 1 may have been
\* rounded to either side
ReachedOne(x, up) == x > ONE \/ (x = ONE /\ up)

\* updateMoodFromResults(emotion, behavior)
updateMoodFromResults(B, now) ==
    LET successImpact == Min(B.successCount * 10, 50)
        failureImpact == Min(B.failureCount * 15, 70)
    IN  [B EXCEPT !.mood = Clamp(@ + successImpact - failureImpact, -100, 100),
                  !.energy = now * 3 + Clamp(@ - B.taskProgress \div 10, -ONE, ONE)]

\* chooseBehavior(entity, emotion, behavior)
chooseBehavior(B) ==
    IF B.energy < -5000 THEN [B EXCEPT !.currentTask = 1, !.interruptible = 0]
    ELSE IF B.mood < -30 /\ B.socialDrive > 0
         THEN [B EXCEPT !.currentTask = 2, !.interruptible = 1]
    ELSE IF B.focusState > 50 /\ B.energy > 0
         THEN [B EXCEPT !.currentTask = 3, !.interruptible = 1]
    ELSE [B EXCEPT !.currentTask = 0, !.interruptible = 1]

\* doExploration(entity, emotion, behavior)
doExploration(B, random) ==
    LET B1 == [B EXCEPT !.taskProgress = @ + 1000]
    IN  IF ReachedOne(B1.taskProgress, random.up)
        THEN IF random.lucky
             THEN [B1 EXCEPT !.taskProgress = 0, !.interruptible = 1,
                             !.successCount = (@ + 1) % 256,
                             !.focusState = @ + 10]
             ELSE [B1 EXCEPT !.taskProgress = 0, !.interruptible = 1]
        ELSE B1

\* doRest with the step of doExploration
doRest_Slow(B, random) ==
    LET B1 == [B EXCEPT !.taskProgress = @ + 1000, !.energy = @ + 500]
    IN  IF ReachedOne(B1.taskProgress, random.up) \/ B1.energy >= 8000
        THEN [B1 EXCEPT !.taskProgress = 0, !.interruptible = 1,
                        !.successCount = (@ + 1) % 256]
        ELSE B1

\* doRest(entity, emotion, behavior)
doRest(B, random) ==
    LET B1 == [B EXCEPT !.taskProgress = @ + 1500, !.energy = @ + 500]
    IN  IF ReachedOne(B1.taskProgress, random.up) \/ B1.energy >= 8000
        THEN [B1 EXCEPT !.taskProgress = 0, !.interruptible = 1,
                        !.successCount = (@ + 1) % 256]
        ELSE B1

\* findNearbyEntities(entity)
findNearbyEntities(S, entity) ==
    SelectSeq(Behaving, LAMBDA other : other # entity /\ S.near)

\* doSocialInteraction(entity, emotion, behavior) on the store
doSocialInteraction(S, entity, random) ==
    LET nearby == findNearbyEntities(S, entity)
        other == nearby[1]
        moodDiff == Abs(S.behavior[entity].mood - S.behavior[other].mood)
        success == random.lucky /\ moodDiff < 100
        S1 == IF Len(nearby) = 0 THEN S
              ELSE [(IF success
                     THEN [S EXCEPT !.behavior[entity].successCount = (@ + 1) % 256,
                                    !.behavior[entity].mood = @ + 10,
                                    !.behavior[other].mood = @ + 10]
                     ELSE [S EXCEPT !.behavior[entity].failureCount = (@ + 1) % 256,
                                    !.behavior[entity].mood = @ - 15])
                    EXCEPT !.emotion[entity] =
                               recordInteraction(@, other, IF success THEN 1 ELSE -1)]
    IN  [S1 EXCEPT !.behavior[entity].interruptible = 1]

\* doProductiveTask(entity, emotion, behavior)
doProductiveTask(B, random) ==
    LET progress == ((B.focusState + 50) * (B.energy + 5000)) \div 1000
        B1 == [B EXCEPT !.taskProgress = @ + progress]
    IN  IF ReachedOne(B1.taskProgress, random.up)
        THEN [B1 EXCEPT !.taskProgress = 0,
                        !.successCount = (@ + 1) % 256,
                        !.focusState = @ + 10]
        ELSE B1

\* executeBehavior(entity, emotion, behavior) on the store
executeBehavior(S, entity, random) ==
    LET B == S.behavior[entity]
    IN  IF B.currentTask = 0
        THEN [S EXCEPT !.behavior[entity] = doExploration(B, random)]
        ELSE IF B.currentTask = 1
        THEN [S EXCEPT !.behavior[entity] = doRest(B, random)]
        ELSE IF B.currentTask = 2 THEN doSocialInteraction(S, entity, random)
        ELSE [S EXCEPT !.behavior[entity] = doProductiveTask(B, random)]

\* the loop of update() (lines 274-288), entities k..; chose collects the
\* entities chooseBehavior ran for
RECURSIVE BehaveFrom(_, _, _, _)
BehaveFrom(R, k, now, randoms) ==
    IF k > Len(Behaving) THEN R
    ELSE LET entity == Behaving[k]
             S1 == [R.S EXCEPT !.behavior[entity] = updateMoodFromResults(@, now)]
             chooses == S1.behavior[entity].interruptible # 0
             S2 == IF chooses
                   THEN [S1 EXCEPT !.behavior[entity] = chooseBehavior(@)]
                   ELSE S1
             S3 == executeBehavior(S2, entity, randoms[entity])
             rests == /\ S3.behavior[entity].currentTask = 1
                      /\ S3.behavior[entity].interruptible = 0
         IN  BehaveFrom(
                 [S |-> [S3 EXCEPT !.behavior[entity].resting =
                                       IF rests THEN @ + 1 ELSE 0],
                  chose |-> IF chooses THEN R.chose \cup {entity} ELSE R.chose],
                 k + 1, now, randoms)

\* EmotionalBehaviorSystem.update()
EmotionalBehaviorSystem_update(S, now, randoms) ==
    BehaveFrom([S |-> S, chose |-> {}], 1, now, randoms)

\* the agents: entity 0 tired or not, sad or not, sociable or not,
\* focused or not; entity 1 a wanderer
InitBehavior ==
    /\ QuietWorld
    /\ \E energy \in {-6000, -4950, -4800, 2000}, mood \in {-50, 50},
          socialDrive \in {0, 70}, focusState \in {0, 60}, near \in BOOLEAN :
          store = [NoStore EXCEPT
              !.near = near,
              !.behavior = [g \in Gangs |->
                  IF g = 0
                  THEN [NoBehavior EXCEPT !.interruptible = 1, !.energy = energy,
                                          !.mood = mood, !.socialDrive = socialDrive,
                                          !.focusState = focusState]
                  ELSE [NoBehavior EXCEPT !.interruptible = 1, !.energy = 9000,
                                          !.mood = 20]]]

\* one update of the system with the world.tick() that follows it
BehaviorStep ==
    /\ time < MaxTicks
    /\ \E lucky0 \in BOOLEAN, lucky1 \in BOOLEAN, up \in BOOLEAN :
          \E R \in {EmotionalBehaviorSystem_update(store, time,
                        [g \in Gangs |-> [lucky |-> IF g = 0 THEN lucky0 ELSE lucky1,
                                          up |-> up]])} :
              /\ store' = R.S
              /\ out' = [NoOut EXCEPT !.op = "EmotionalBehaviorSystem.update",
                                      !.indices = R.chose]
    /\ time' = time + 1
    /\ UNCHANGED <<alive, territories, stability, activeConflicts, warStrength,
                   allies, casualties, victories, reputation, conflictCache, err,
                   hostOps, calls, lastCall, simVars>>

NextBehavior == BehaviorStep

SpecBehavior == InitBehavior /\ [][NextBehavior]_vars

\* ---------------------------------------------------------------------
\* EconomicPowerSystem.update()
\*
\* store.economy[g] holds g's EconomicState, EmergencyPowers and the
\* fields of PowerStructure read here.  marketInfluence, influence,
\* powerBase, oppositionPower and severity are in hundredths,
\* stabilityFactor in thousandths; resources are kept so that the
\* monopoly shares are whole hundredths.
\* ---------------------------------------------------------------------
\* the entities of the powerHolders query, in query order
Holders == <<0, 1>>

\* a severity that is NaN (0 / 0 or 0 * Infinity)
NaN == -1

\* powerThresholds[i] = Math.pow(1.5, i), in hundredths
RECURSIVE powerThresholds(_)
powerThresholds(i) == IF i = 0 THEN 100 ELSE (powerThresholds(i - 1) * 3) \div 2

\* calculateControlInfluence(controlBits, resources) for the group
calculateControlInfluence(S, group) == S.economy[group[1]].influence

\* updateResourceControl(group, controlBits) on the economy table
updateResourceControl(S, group) ==
    LET influence == calculateControlInfluence(S, group)
    IN  [S EXCEPT !.economy = [g \in Gangs |->
            IF g \in Range(group)
            THEN [S.economy[g] EXCEPT !.marketInfluence =
                      (influence * S.economy[g].powerBase)
                          \div powerThresholds(S.economy[g].leaderPosition)]
            ELSE S.economy[g]]]

\* batchUpdateEconomics(holders), groups k.. in order of their first holder
RECURSIVE batchUpdateEconomics(_, _)
batchUpdateEconomics(S, k) ==
    IF k > Len(Holders) THEN S
    ELSE LET same(h) == S.economy[h].control = S.economy[Holders[k]].control
             group == SelectSeq(Holders, same)
         IN  IF group[1] = Holders[k]
             THEN batchUpdateEconomics(updateResourceControl(S, group), k + 1)
             ELSE batchUpdateEconomics(S, k + 1)

\* resourceState[i] of detectEconomicCrises
RECURSIVE resourceState(_, _, _)
resourceState(S, i, k) ==
    IF k > Len(Holders) THEN 0
    ELSE S.economy[Holders[k]].resources[i] + resourceState(S, i, k + 1)

\* the monopoly crises of a holder, resources i..7
RECURSIVE MonopoliesFrom(_, _, _)
MonopoliesFrom(S, holder, i) ==
    IF i > 7 THEN <<>>
    ELSE LET mine == S.economy[holder].resources[i]
             all == resourceState(S, i, 1)
         IN  (IF mine * 10 > all * 4
              THEN <<[type |-> "monopoly", resource |-> i, holder |-> holder,
                      severity |-> (mine * 100) \div all]>>
              ELSE <<>>) \o MonopoliesFrom(S, holder, i + 1)

\* detectEconomicCrises(holders), second pass from holder k
RECURSIVE detectEconomicCrises(_, _)
detectEconomicCrises(S, k) ==
    IF k > Len(Holders) THEN <<>>
    ELSE LET holder == Holders[k]
             economic == S.economy[holder]
         IN  MonopoliesFrom(S, holder, 0)
             \o (IF economic.totalDebt < -1000
                 THEN <<[type |-> "debt", resource |-> 0, holder |-> holder,
                         severity |-> Abs(economic.totalDebt) \div 10]>>
                 ELSE <<>>)
             \o (IF economic.marketInfluence > 60
                 THEN <<[type |-> "manipulation", resource |-> 0, holder |-> holder,
                         severity |-> economic.marketInfluence]>>
                 ELSE <<>>)
             \o detectEconomicCrises(S, k + 1)

\* crises.sort((a, b) => b.severity - a.severity): stable, descending
RECURSIVE SortCrises(_)
SortCrises(crises) ==
    IF crises = <<>> THEN <<>>
    ELSE LET top == CHOOSE i \in 1..Len(crises) :
                        /\ \A j \in 1..Len(crises) :
                               crises[j].severity <= crises[i].severity
                        /\ \A j \in 1..(i - 1) :
                               crises[j].severity < crises[i].severity
         IN  <<crises[top]>>
             \o SortCrises(SubSeq(crises, 1, top - 1)
                           \o SubSeq(crises, top + 1, Len(crises)))

\* implementAntiMonopolyMeasures, implementDebtControls, implementMarketControls
implementMeasures(S, crisis) == S

\* adjustEmergencyMeasures(crisis, emergency, power)
adjustEmergencyMeasures(S, crisis) == S

\* applyEconomicPenalties(crisis)
applyEconomicPenalties(S, crisis) == S

\* declareEmergencyPowers(crisis, emergency, power); the type string
\* stored in the ui8 justification reads back 0
declareEmergencyPowers(S, crisis) ==
    implementMeasures(
        [S EXCEPT !.economy[crisis.holder].active = 1,
                  !.economy[crisis.holder].duration = 0,
                  !.economy[crisis.holder].justification = 0,
                  !.economy[crisis.holder].severity = crisis.severity],
        crisis)

\* handleEconomicCrises(crises, holders), sorted crises k..; declared
\* collects the crises emergency powers were declared for
RECURSIVE handleEconomicCrises(_, _, _)
handleEconomicCrises(R, crises, k) ==
    IF k > Len(crises) THEN R
    ELSE LET crisis == crises[k]
             emergency == R.S.economy[crisis.holder]
             declares == crisis.severity > 80 /\ emergency.active = 0
             S1 == IF declares THEN declareEmergencyPowers(R.S, crisis)
                   ELSE IF emergency.active # 0
                        THEN adjustEmergencyMeasures(R.S, crisis)
                   ELSE R.S
         IN  handleEconomicCrises(
                 [S |-> applyEconomicPenalties(S1, crisis),
                  declared |-> IF declares THEN Append(R.declared, crisis)
                               ELSE R.declared],
                 crises, k + 1)

\* shouldMaintainEmergency(emergency, power, economic); resolved is what
\* isCrisisResolved gives
shouldMaintainEmergency(E, resolved) ==
    LET stabilityImpact == E.duration * 10
    IN  /\ ~resolved
        /\ E.oppositionPower * 10 < E.powerBase * 12
        /\ E.stabilityFactor - stabilityImpact > 200

\* countBits(bits)
countBits(bits) == Cardinality(bits)

\* severity * (enforcerCount / oppositionCount), capped by Math.min(1, ...)
AdjustedSeverity(severity, enforcerCount, oppositionCount) ==
    IF severity = NaN THEN NaN
    ELSE IF oppositionCount = 0
         THEN IF enforcerCount = 0 \/ severity = 0 THEN NaN ELSE 100
    ELSE Min(100, (severity * enforcerCount) \div oppositionCount)

\* updateEmergencyEnforcement(holder, emergency): disloyal are the
\* enforcers isEnforcerLoyal denies; removing one assigns to the const
\* newEnforcers
updateEmergencyEnforcement(E, disloyal) ==
    IF E.enforcers \cap disloyal # {}
    THEN [E |-> E, error |-> "TypeError"]
    ELSE [E |-> [E EXCEPT !.severity = AdjustedSeverity(@, countBits(E.enforcers),
                                                         countBits(E.opposition))],
          error |-> "none"]

\* handlePostEmergencyTransition(holder)
handlePostEmergencyTransition(E) == E

\* liftEmergencyPowers(holder, emergency, power)
liftEmergencyPowers(E) ==
    LET stabilityHit == E.duration * 5
    IN  handlePostEmergencyTransition(
            [E EXCEPT !.stabilityFactor = Max(0, @ - stabilityHit),
                      !.active = 0, !.duration = 0, !.severity = 0,
                      !.enforcers = {}])

\* updateEmergencyMeasures(holders), holders k..; an exception ends the loop
RECURSIVE updateEmergencyMeasures(_, _, _, _)
updateEmergencyMeasures(R, k, resolved, disloyal) ==
    IF k > Len(Holders) \/ R.error # "none" THEN R
    ELSE LET holder == Holders[k]
             emergency == R.S.economy[holder]
             E1 == [emergency EXCEPT !.duration = @ + 1]
             enforced == updateEmergencyEnforcement(E1, disloyal[holder])
         IN  IF emergency.active = 0
             THEN updateEmergencyMeasures(R, k + 1, resolved, disloyal)
             ELSE IF shouldMaintainEmergency(E1, holder \in resolved)
             THEN updateEmergencyMeasures(
                      [R EXCEPT !.S.economy[holder] = enforced.E,
                                !.error = enforced.error],
                      k + 1, resolved, disloyal)
             ELSE updateEmergencyMeasures(
                      [R EXCEPT !.S.economy[holder] = liftEmergencyPowers(E1)],
                      k + 1, resolved, disloyal)

\* the updates since the declaration, for the holders under emergency
Aged(S, before) ==
    [S EXCEPT !.economy = [g \in Gangs |->
        [S.economy[g] EXCEPT !.age = IF S.economy[g].active = 0 THEN 0
                             ELSE IF before.economy[g].active = 0 THEN 1
                             ELSE before.economy[g].age + 1]]]

\* EconomicPowerSystem.update()
EconomicPowerSystem_update(S, resolved, disloyal) ==
    LET S1 == batchUpdateEconomics(S, 1)
        crises == detectEconomicCrises(S1, 1)
        handled == IF Len(crises) > 0
                   THEN handleEconomicCrises([S |-> S1, declared |-> <<>>],
                                             SortCrises(crises), 1)
                   ELSE [S |-> S1, declared |-> <<>>]
        R == updateEmergencyMeasures(
                 [S |-> handled.S, declared |-> handled.declared, error |-> "none"],
                 1, resolved, disloyal)
    IN  [R EXCEPT !.S = Aged(R.S, S)]

\* the enforcer bit some holders start with
EnforcerBits == {2}

\* two holders: a monopolist of resource 0 (or none), an indebted or
\* influential second holder; stability between 0.3 and 1
InitEconomy ==
    /\ QuietWorld
    /\ \E share \in {30, 90}, enforcers \in SUBSET EnforcerBits,
          stability0 \in {300, 1000}, stability1 \in {600, 1000},
          totalDebt \in {0, -1200}, influence \in {0, 90},
          oppositionPower \in {0, 200} :
          store = [NoStore EXCEPT !.economy = [g \in Gangs |->
              IF g = 0
              THEN [NoEconomy EXCEPT !.resources[0] = share, !.control = {0},
                                     !.powerBase = 100, !.enforcers = enforcers,
                                     !.opposition = {1},
                                     !.stabilityFactor = stability0]
              ELSE IF g = 1
              THEN [NoEconomy EXCEPT !.resources[0] = 100 - share, !.control = {1},
                                     !.powerBase = 100, !.influence = influence,
                                     !.totalDebt = totalDebt,
                                     !.oppositionPower = oppositionPower,
                                     !.stabilityFactor = stability1]
              ELSE NoEconomy]]

\* one update of the system with the world.tick() that follows it; a
\* crisis is found resolved and an enforcer disloyal in the first ticks only
EconomyStep ==
    /\ time < MaxTime
    /\ \E resolved \in SUBSET Range(Holders),
          disloyal \in [Range(Holders) -> SUBSET EnforcerBits] :
          /\ resolved # {} => time <= MaxHostTime
          /\ (\E h \in Range(Holders) : disloyal[h] # {}) => time <= MaxHostTime
          /\ \E R \in {EconomicPowerSystem_update(store, resolved, disloyal)} :
                /\ store' = R.S
                /\ out' = [NoOut EXCEPT !.op = "EconomicPowerSystem.update",
                                        !.value = R.declared,
                                        !.error = R.error]
    /\ time' = time + 1
    /\ UNCHANGED <<alive, territories, stability, activeConflicts, warStrength,
                   allies, casualties, victories, reputation, conflictCache, err,
                   hostOps, calls, lastCall, simVars>>

NextEconomy == EconomyStep

SpecEconomy == InitEconomy /\ [][NextEconomy]_vars

\* =====================================================================
\* Properties
\* =====================================================================
\* a transition in which update() ran (to completion, or to an exception)
UpdateRan == time' = time + 1 \/ err' # err
\* a transition in which update() ran to completion
UpdateDone == time' = time + 1

Strength(g) == calculateWarStrength(Fields, g)
\* |strength1 - strength2| > 0.3, written out
BeyondThreshold(g1, g2) ==
    Abs(Strength(g1) - Strength(g2)) * 10 > 3 * StrengthDen
Stronger(g1, g2) == IF Strength(g1) > Strength(g2) THEN g1 ELSE g2
Weaker(g1, g2) == IF Strength(g1) > Strength(g2) THEN g2 ELSE g1
Entries == {conflictCache[k] : k \in 1..Len(conflictCache)}
BothExist(c) == c.g1 \in alive /\ c.g2 \in alive
\* the conflict is older than the maturation window at world time now
PastWindow(c, now) == now - c.lastUpdate > 100

\* C1: two gangs hold the bit of one slot at tick t, their conflict is
\* registered at t and their strengths differ by more than the threshold:
\* once the update of world time t + 100 has run, the conflict is resolved
\* (the bit is on exactly one of the two, no entry is pending for them).
C1_EndToEnd ==
    \A c \in Entries :
        ( /\ BothExist(c)
          /\ BeyondThreshold(c.g1, c.g2)
          /\ c.territory \in territories[c.g1] \cap territories[c.g2] )
        => time <= c.startTime + 100

\* what C2 asks of one transition
C2_DecisiveStep ==
    \A c \in Entries :
        ( /\ UpdateRan
          /\ PastWindow(c, time)
          /\ BothExist(c)
          /\ BeyondThreshold(c.g1, c.g2) )
        => /\ err' = "none"
           /\ c.territory \in territories'[Stronger(c.g1, c.g2)]
           /\ c.territory \notin territories'[Weaker(c.g1, c.g2)]
           /\ \A d \in Entries' : ~(d.g1 = c.g1 /\ d.g2 = c.g2)

\* C2: every mature conflict whose strengths differ by more than the
\* threshold is resolved in that update: update() completes, the stronger
\* party holds the slot, the other does not, the entry is deleted.
C2_Decisive == [][C2_DecisiveStep]_vars

\* what C3 asks of one transition
C3_StalemateStep ==
    \A c \in Entries :
        ( /\ UpdateRan
          /\ PastWindow(c, time)
          /\ BothExist(c)
          /\ ~BeyondThreshold(c.g1, c.g2) )
        => /\ territories'[c.g1] = territories[c.g1]
           /\ territories'[c.g2] = territories[c.g2]
           /\ [c EXCEPT !.lastUpdate = time] \in Entries'

\* C3: a mature conflict whose strengths differ by at most the threshold
\* (equality included) is a stalemate: neither party's territories change,
\* the entry stays, its lastUpdate becomes the current tick, its startTime
\* is kept.
C3_Stalemate == [][C3_StalemateStep]_vars

\* the number of map entries for a pair and a slot
EntryCount(cache, g1, g2, slot) ==
    Cardinality({k \in 1..Len(cache) :
                    /\ cache[k].g1 = g1
                    /\ cache[k].g2 = g2
                    /\ cache[k].territory = slot})

\* what C4 asks of one transition
C4_IdempotentStep ==
    \A c \in Entries :
        (UpdateRan /\ time - c.lastUpdate <= 100)
        => /\ c \in Entries'
           /\ EntryCount(conflictCache', c.g1, c.g2, c.territory) = 1

\* C4: while a conflict of a pair on a slot is pending and not yet mature,
\* an update that detects the pair again adds no second entry and keeps
\* the entry's startTime and lastUpdate.
C4_Idempotent == [][C4_IdempotentStep]_vars

\* an entry two or more updates old, detected again in each of them
\* (both parties exist and still hold the slot), still as registered
C4_Witness ==
    \E c \in Entries :
        /\ BothExist(c)
        /\ c.territory \in territories[c.g1] \cap territories[c.g2]
        /\ time >= c.startTime + 2
        /\ c.lastUpdate = c.startTime
        /\ EntryCount(conflictCache, c.g1, c.g2, c.territory) = 1

\* what C5 asks of one transition
C5_WindowStep ==
    UpdateRan =>
        /\ \A c \in Entries :
              time - c.lastUpdate <= 100
              => /\ c \in Entries'
                 /\ c.territory \in activeConflicts'[c.g1]
                 /\ c.territory \in activeConflicts'[c.g2]
        /\ \A g \in Gangs :
              (\A c \in Entries : g \in {c.g1, c.g2} => time - c.lastUpdate <= 100)
              => /\ territories'[g] = territories[g]
                 /\ casualties'[g] = casualties[g]
                 /\ victories'[g] = victories[g]
                 /\ reputation'[g] = reputation[g]
        /\ (err' # err \/ \E c \in Entries : c \notin Entries')
              => \E c \in Entries : time - c.lastUpdate > 100

\* C5: an update at a tick where currentTick - lastUpdate <= 100 leaves
\* the conflict untouched: its entry is unchanged, its flags stay set, and
\* a gang none of whose conflicts is past the window keeps its
\* territories, counters and reputation; nothing is evaluated (no entry
\* changes or goes, no exception) unless some entry is past the window.
C5_Window == [][C5_WindowStep]_vars

\* an update evaluated one conflict (refreshed at tick 101) and left
\* a younger one, registered at tick 1, as it was
C5_Witness ==
    \E c \in Entries, d \in Entries :
        /\ time = 101
        /\ c.startTime = 1 /\ c.lastUpdate = 1
        /\ d.startTime = 0 /\ d.lastUpdate = 101

\* what C6 asks of the state an update leaves
C6_Post ==
    \A g1 \in alive, g2 \in alive :
        \A s1 \in territories[g1] \cap territories[g2],
           s2 \in territories[g1] \cap territories[g2] :
            (g1 < g2 /\ s1 # s2 /\ s1 < TERRITORY_GRID /\ s2 < TERRITORY_GRID)
            => /\ EntryCount(conflictCache, g1, g2, s1) = 1
               /\ EntryCount(conflictCache, g1, g2, s2) = 1
               /\ {s1, s2} \subseteq activeConflicts[g1]
               /\ {s1, s2} \subseteq activeConflicts[g2]

\* C6: after detection, two gangs that both hold slots s1 and s2 have two
\* pending conflicts, one per slot, and both flags set for both slots.
C6_PairAndSlot == [][UpdateDone => C6_Post']_vars

\* what C7 asks of the state an update leaves
C7_Post ==
    \A g1 \in alive, g2 \in alive :
        \A s \in territories[g1] \cap territories[g2] :
            (g1 < g2 /\ s < TERRITORY_GRID)
            => \E c \in Entries : c.g1 = g1 /\ c.g2 = g2

\* C7: after detection, every pair of distinct gangs that both hold the
\* bit of a slot has a pending conflict.
C7_EveryPair == [][UpdateDone => C7_Post']_vars

\* what C8 asks of one transition
C8_DiscardStep ==
    \A c \in Entries :
        (UpdateRan /\ PastWindow(c, time) /\ ~BothExist(c))
        => /\ err' = "none"
           /\ \A d \in Entries' : ~(d.g1 = c.g1 /\ d.g2 = c.g2)

\* C8: a mature conflict one of whose parties no longer exists is
\* discarded: the update does not fail, the entry is removed, and no
\* field of the two parties changes.
C8_Discard == [][C8_DiscardStep]_vars

\* what C9 asks of one transition
C9_CountersStep ==
    calls' = calls + 1 =>
        LET w == lastCall'.winner
            l == IF w = lastCall'.gang1 THEN lastCall'.gang2 ELSE lastCall'.gang1
        IN  /\ victories'[w] = victories[w] + 1
            /\ casualties'[l] = casualties[l] + 1
            /\ casualties'[w] = casualties[w]
            /\ victories'[l] = victories[l]

C10_ReputationStep ==
    (\A g \in Gangs : reputation[g] >= 0 /\ reputation[g] <= 100)
    => /\ \A g \in Gangs : reputation'[g] >= 0 /\ reputation'[g] <= 100
       /\ calls' = calls + 1 =>
            LET w == lastCall'.winner
                l == IF w = lastCall'.gang1 THEN lastCall'.gang2 ELSE lastCall'.gang1
            IN  /\ reputation'[w] =
                      IF reputation[w] + 10 > 100 THEN 100 ELSE reputation[w] + 10
                /\ reputation'[l] * 10 <= reputation[l] * 8
                /\ reputation[l] * 8 < reputation'[l] * 10 + 10

\* C10: from reputations in [0, 1] every dispute leaves every reputation
\* in [0, 1]; the winner's becomes min(1, reputation + 0.1), the loser's
\* 0.8 times its value (to the precision of the stored number).
C10_Reputation == [][C10_ReputationStep]_vars

\* a winner capped at 1.0 (from 0.95) next to a loser decayed to 0.76
C10_Witness ==
    /\ calls >= 1
    /\ \E w \in Gangs, l \in Gangs :
          /\ lastCall.winner = w
          /\ l \in {lastCall.gang1, lastCall.gang2} \ {w}
          /\ reputation[w] = 100
          /\ reputation[l] = 76

\* the sum of the values of a function over a finite set of its domain
RECURSIVE SumFn(_, _)
SumFn(f, S) ==
    IF S = {} THEN 0
    ELSE LET x == CHOOSE y \in S : TRUE
         IN  f[x] + SumFn(f, S \ {x})

\* the indices of the bits set in a mask below 2^31
BitsOf(mask) == {i \in 0..30 : (mask \div (2 ^ i)) % 2 = 1}
\* the sum of the one-hop contributions of g's allies, in tenths
AllySum(g) ==
    SumFn([i \in 0..30 |-> IF i \in alive THEN warStrength[i] ELSE 0], BitsOf(allies[g]))
\* the sum of g's stability over the slots in S, in tenths
StabilityOver(g, S) == SumFn([i \in 0..(TERRITORY_GRID - 1) |-> stability[g][i + 1]], S)

ComputedFor(a) == power'[a].leaderPosition
\* the entries of the cache under the key the update looks a up with
KeyEntries(a) == {c \in conspiracyCache : c.agent = a /\ c.flags = conspiracy'[a]}

\* what C12 asks of one transition
C12_FreshnessStep ==
    UpdateDone =>
        \A a \in alive :
            IF \E c \in KeyEntries(a) : time - c.timestamp < 100
            THEN \A c \in KeyEntries(a) :
                    /\ out'.status[a] = c.status
                    /\ a \notin out'.computed
                    /\ c \in conspiracyCache'
            ELSE /\ a \in out'.computed
                 /\ out'.status[a] = ComputedFor(a)
                 /\ \A c \in conspiracyCache' :
                        (c.agent = a /\ c.flags = conspiracy'[a])
                        => (c.status = ComputedFor(a) /\ c.timestamp = time)
                 /\ \E c \in conspiracyCache' : c.agent = a /\ c.flags = conspiracy'[a]

\* C12: a lookup at tick t returns the stored value without computing
\* when the key has an entry with t - insertedTick < 100 (the entry stays
\* as it is); when the key is absent or t - insertedTick >= 100 it
\* computes, returns the computed value and leaves the key's one entry
\* holding that value stamped t.
C12_Freshness == [][C12_FreshnessStep]_vars

\* an agent whose key never changed: computed at tick 0, served from the
\* cache until tick 99, computed again at tick 100
C12_Witness ==
    /\ time = 101
    /\ \E a \in alive :
          /\ a \in out.computed
          /\ conspiracy[a] = {}
          /\ \E c \in conspiracyCache :
                c.agent = a /\ c.flags = {} /\ c.timestamp = 100

C14_PhaseOrderStep ==
    UpdateRan =>
        LET L == out'.phaseLog
        IN  /\ Len(L) >= 2
            /\ L[1].phase = "updateTerritories"
            /\ L[2].phase = "resolveConflicts"
            /\ \A i \in 3..Len(L) :
                  /\ L[i].phase = "gangster"
                  /\ L[i].owned = territories'[L[i].gangster]
            /\ err' = "none" => {L[i].gangster : i \in 3..Len(L)} = alive

\* C14: in every TerritorySystem update detection starts first, then
\* resolution, and the per-gangster loop comes after both: the ownership
\* it reads for a gangster is the ownership all resolutions of the tick
\* have left, and every gangster is reached when the update completes.
C14_PhaseOrder == [][C14_PhaseOrderStep]_vars

\* an update that detected, handled a stalemate (refreshed at tick 101)
\* and then went through all gangsters
C14_Witness ==
    /\ time = 102
    /\ err = "none"
    /\ Len(out.phaseLog) = 2 + Cardinality(alive)
    /\ \E c \in Entries : c.lastUpdate = 101

\* the declared order of the host's systems
SystemOrder ==
    IF host = "ArgosAdvanced"
    THEN <<"EmotionalBehaviorSystem", "EconomicPowerSystem", "TerritorySystem",
           "CrimeSystem">>
    ELSE <<"EmotionalBehaviorSystem", "PowerSystem", "TerritorySystem",
           "UndergroundSystem", "ConspiracySystem">>

\* what C15 asks of one transition
C15_OneTickStep ==
    /\ time' # time => (time' = time + 1 /\ Len(out'.sysLog) = Len(SystemOrder))
    /\ UpdateRan =>
          LET L == out'.sysLog
          IN  /\ Len(L) <= Len(SystemOrder)
              /\ \A i \in 1..Len(L) :
                    L[i].system = SystemOrder[i] /\ L[i].at = time
              /\ Len(L) = Len(SystemOrder) <=> time' = time + 1
              /\ err' = "none" => Len(L) = Len(SystemOrder)

\* C15: in every update the systems run in the host's declared order,
\* each at the world time the update started with, and the tick counter
\* advances by one exactly when the last system has finished; nothing
\* else moves the counter.
C15_OneTick == [][C15_OneTickStep]_vars

\* two complete updates of the ArgosAdvanced class
C15_Witness ==
    /\ host = "ArgosAdvanced"
    /\ time = 2
    /\ Len(out.sysLog) = 4
    /\ out.sysLog[4] = Saw("CrimeSystem", 1)

\* ---- succession ----
\* stabilityFactor < 0.2 and >= 0.2, written out for the pair [m, e]
Below02(st) == st.m * 5 < 100 * (2 ^ st.e)
Reported(log) == {log[i].agent : i \in 1..Len(log)}

\* what C16 asks of one transition
C16_ThresholdStep ==
    UpdateDone =>
        \A a \in alive :
            /\ ~Below02(power[a].stabilityFactor) => a \notin Reported(out'.vacuums)
            /\ (power[a].leaderPosition > 0 /\ Below02(power[a].stabilityFactor))
                  => a \in Reported(out'.vacuums)

\* C16: an agent whose stability is 0.2 or more is never among the
\* vacancies detectPowerVacuums reports, and every agent with a position
\* (leaderPosition > 0) and stability below 0.2 is.
C16_Threshold == [][C16_ThresholdStep]_vars

\* a vacancy was reported while a position holder at exactly 0.2 was not
C16_Witness ==
    /\ time = 1
    /\ Len(out.vacuums) >= 1
    /\ \E a \in alive :
          /\ power[a].leaderPosition > 0
          /\ power[a].stabilityFactor = Stab(20)
          /\ a \notin Reported(out.vacuums)

\* a viable candidate for the holder's position (spec 4.5)
Viable(a, holder) ==
    /\ a # holder
    /\ supportOf[a] > 60
    /\ power[a].powerBase > power[holder].powerBase
\* how often agent a occurs in a candidate list
Occurrences(list, a) == Cardinality({i \in 1..Len(list) : list[i].agent = a})

\* what C17 asks of one transition (the order of the list is C18's)
C17_CandidatesStep ==
    UpdateDone =>
        \A k \in 1..Len(out'.vacuums) :
            LET holder == out'.vacuums[k].agent
                list == out'.candidates[k]
            IN  /\ Occurrences(list, holder) = 0
                /\ \A a \in alive :
                      Occurrences(list, a) = IF Viable(a, holder) THEN 1 ELSE 0

\* C17: the candidate list of a vacancy holds every viable agent exactly
\* once, designated or not, no other agent, and never the holder.
C17_Candidates == [][C17_CandidatesStep]_vars

\* what C18 asks of one transition
C18_RankingStep ==
    UpdateDone =>
        \A k \in 1..Len(out'.vacuums) :
            LET list == out'.candidates[k]
            IN  \A i \in 1..Len(list), j \in 1..Len(list) :
                    i < j =>
                        \/ list[i].support > list[j].support
                        \/ /\ list[i].support = list[j].support
                           /\ list[i].agent <= list[j].agent

\* C18: a candidate list is ordered by support descending, and among
\* candidates of equal support by entity id ascending, designated
\* successor or not.
C18_Ranking == [][C18_RankingStep]_vars

\* what C19 asks of one transition
C19_TransferStep ==
    UpdateDone =>
        \A k \in 1..Len(out'.vacuums) :
            LET holder == out'.vacuums[k].agent
                list == out'.candidates[k]
            IN  Len(list) > 0 =>
                    /\ power'[list[1].agent].leaderPosition = out'.vacuums[k].position
                    /\ power'[holder].powerBase < power[holder].powerBase
                    /\ power'[holder].succession = <<0, 0, 0, 0>>

\* C19: when a vacancy has a viable candidate, after the update the
\* top-ranked one holds the vacated position, the incumbent's capability
\* is lower than before and the incumbent's successor list is empty.
C19_Transfer == [][C19_TransferStep]_vars

\* stability s2 is s1 halved n times
HalvedTimes(s1, s2, n) == s2.m * (2 ^ (s1.e + n)) = s1.m * (2 ^ s2.e)

\* C20 as claimed, for an update that handled n collapses: every
\* affected agent's leaderPosition is lower by 1 per collapse and its
\* stability is halved once per collapse.
C20_Collapse ==
    [][(UpdateDone /\ out'.collapses > 0) =>
          \A a \in alive :
              /\ power'[a].leaderPosition = power[a].leaderPosition - out'.collapses
              /\ HalvedTimes(power[a].stabilityFactor, power'[a].stabilityFactor,
                             out'.collapses)]_vars

\* what the amended C20 asks of one transition
C20_CollapseFloorStep ==
    (UpdateDone /\ out'.collapses > 0) =>
        \A a \in alive :
            /\ power'[a].leaderPosition
                  = (IF power[a].leaderPosition > out'.collapses
                     THEN power[a].leaderPosition - out'.collapses ELSE 0)
            /\ HalvedTimes(power[a].stabilityFactor, power'[a].stabilityFactor,
                           out'.collapses)

\* C20: a collapse lowers every affected agent's leaderPosition by
\* exactly 1, except that a leaderPosition of 0 stays 0, and halves its
\* stability exactly (once per collapse handled in the update).
C20_CollapseFloor == [][C20_CollapseFloorStep]_vars

\* one collapse was handled in the first update: an agent went from rank
\* 2 to rank 1 and from stability 0.1 to 0.05, one at rank 0 stayed there
C20_Witness ==
    /\ time = 1
    /\ out.collapses = 1
    /\ \E a \in alive, b \in alive :
          /\ power[a].leaderPosition = 1
          /\ power[a].stabilityFactor = Halved(Stab(10))
          /\ power[a].succession = Shaky.power.succession
          /\ power[b].leaderPosition = 0
          /\ power[b].stabilityFactor = Halved(Stab(10))

\* ---- collapse cascade ----
\* an occupied position whose holder's stability is below the threshold
Vacant(P, a) == P[a].leaderPosition > 0 /\ Below02(P[a].stabilityFactor)

\* what C21 asks of one transition
C21_CascadeStep ==
    (UpdateDone /\ out'.collapses > 0) =>
        \A a \in alive :
            (~Vacant(power, a) /\ Vacant(power', a)) => a \in Reported(out'.vacuums)

\* C21: a holder that a power collapse pushes below the collapse
\* threshold gets its vacancy handled in the same update, so that after an
\* update every holder newly below the threshold is among the vacancies
\* the update handled.
C21_Cascade == [][C21_CascadeStep]_vars

\* ---- support and the leadership challenge ----
\* the members of the challenger's group other than the two contestants
ThirdParties(D, challenger, leader) ==
    {m \in alive : D[m].groupId = D[challenger].groupId} \ {challenger, leader}

\* the term of third party m: (influenceDiff * 0.3 + alliance bonus 0.2
\* - rivalry penalty 0.3) * (1 - loyalty), over SupportDen
SupportTerm(D, m, challenger, leader) ==
    ((D[challenger].influence - D[leader].influence) * 3
        + (IF challenger \in D[m].allies THEN 3200 ELSE 0)
        - (IF challenger \in D[m].rivals THEN 4800 ELSE 0))
    * (10000 - D[m].loyalty)

\* what C22 asks of one call
C22_SupportStep ==
    out'.branch \in {"support", "successful", "failed"} =>
        LET D == store.dynamics
            c == out'.challenger
            l == out'.leader
        IN  /\ out'.support.num
                  = SumFn([m \in alive |-> SupportTerm(D, m, c, l)], ThirdParties(D, c, l))
            /\ out'.support.den
                  = Cardinality({m \in alive : D[m].groupId = D[c].groupId}) - 2

\* C22: the support calculateSupport(challenger, leader) returns is the
\* sum over the group's members other than the challenger and the leader
\* of (influenceDiff * 0.3 + alliance bonus - rivalry penalty) *
\* (1 - loyalty), divided by the group size minus 2.
C22_Support == [][C22_SupportStep]_vars

\* a support was computed in a group of four for a challenger with an
\* ally and a rival among the third parties
C22_Witness ==
    /\ out.branch = "support"
    /\ out.support.den = 2
    /\ out.challenger = 2
    /\ \E m \in alive : 2 \in store.dynamics[m].allies
    /\ \E m \in alive : 2 \in store.dynamics[m].rivals
    /\ out.support.num # 0

\* the support of challenger c against leader l is a number above 0.6
SupportAbove(D, c, l) ==
    LET n == Cardinality({m \in alive : D[m].groupId = D[c].groupId})
        sum == SumFn([m \in alive |-> SupportTerm(D, m, c, l)], ThirdParties(D, c, l))
    IN  n > 2 /\ sum > 96000000 * (n - 2)

\* the leaders of the challenger's group
LeadersOf(D, c) == {a \in alive : D[a].groupId = D[c].groupId /\ D[a].role = 1}

\* what C30 asks of one call of handleLeadershipChallenge on a group
\* that has a leader
C30_GateStep ==
    (out'.branch \in {"returned", "successful", "failed"}
        /\ LeadersOf(store.dynamics, out'.challenger) # {}) =>
        LET D == store.dynamics
            E == store'.dynamics
            c == out'.challenger
            l == CHOOSE a \in LeadersOf(D, c) : TRUE
        IN  IF SupportAbove(D, c, l) /\ D[c].influence > D[l].influence
            THEN LeadersOf(E, c) = {c}
            ELSE /\ LeadersOf(E, c) = {l}
                 /\ E[c].influence * 2 = D[c].influence
                 /\ E[c].loyalty * 10 = D[c].loyalty * 7

\* C30: handleLeadershipChallenge makes the challenger the leader only
\* when its support is above 0.6 and its influence above the leader's;
\* in every other case the leader stays, the challenger's influence is
\* halved and its loyalty multiplied by 0.7.
C30_Gate == [][C30_GateStep]_vars

\* ---- bit sets ----
\* the ascending sequence of the elements of a set of indices
RECURSIVE AscendingBits(_)
AscendingBits(S) ==
    IF S = {} THEN <<>>
    ELSE LET m == CHOOSE x \in S : \A y \in S : x <= y
         IN  <<m>> \o AscendingBits(S \ {m})

\* C23: a loop that scans a 32-bit mask by testing the low bit and
\* shifting right has made at most 32 iterations, has ended once it has
\* made 32, and has visited exactly the set bits below its index, in
\* ascending order.
C23_ScanFinite ==
    store.scan.loop # "none" =>
        /\ store.scan.index <= 32
        /\ store.scan.index = 32 => store.scan.mask = {}
        /\ store.scan.visited
              = AscendingBits({i \in store.scan.of : i < store.scan.index})

\* the relationship sets of an operator
SetsOf(S, operator) ==
    <<S.underground[operator].contacts, S.underground[operator].marketAccess,
      S.intel[operator].informants, S.intel[operator].compromised>>

\* what C24 asks of one operation
C24_RangeStep ==
    (out'.op # "none" /\ \E i \in out'.indices : i \notin Word) =>
        /\ out'.error = "IndexOutOfRange"
        /\ SetsOf(store', out'.operator) = SetsOf(store, out'.operator)
        /\ out'.market \in Word \cup {NoGang}

\* C24: a membership test or an insert with an index outside 0..31 fails
\* with IndexOutOfRange and leaves the sets unchanged; no bit of another
\* index is read (no market is found through it) or set.
C24_Range == [][C24_RangeStep]_vars

\* what C25 asks of one operation whose indices are all in 0..31
C25_BitLawsStep ==
    (out'.op \in {"markCompromised", "seekNewContacts"} /\ out'.indices \subseteq Word) =>
        LET before == SetsOf(store, out'.operator)
            after == SetsOf(store', out'.operator)
            \* the sets the operation inserts into and removes from
            inserted == IF out'.op = "seekNewContacts" THEN {1} ELSE {4}
            removed == IF out'.op = "seekNewContacts" THEN {} ELSE {3}
        IN  \A f \in 1..4, j \in Word :
                Contains(after[f], j)
                    = IF f \in inserted /\ j \in out'.indices THEN TRUE
                      ELSE IF f \in removed /\ j \in out'.indices THEN FALSE
                      ELSE Contains(before[f], j)

\* C25: for an index i in 0..31, after bit i is set the membership test
\* for i is true, after it is cleared the test is false, and the test for
\* every other index, and on every other set, gives what it gave before.
C25_BitLaws == [][C25_BitLawsStep]_vars

\* a second informant was marked: its bit is set in compromised next to
\* the first one's and cleared in informants
C25_Witness ==
    /\ out.op = "markCompromised"
    /\ out.indices = {30}
    /\ \E g \in alive :
          /\ store.intel[g].compromised = {3, 30}
          /\ store.intel[g].informants = {}

\* ---- queries ----
\* the gangsters the per-gangster loop of an update reached, in order
Visited(log) ==
    LET reached == SelectSeq(log, LAMBDA e : e.phase = "gangster")
    IN  [k \in 1..Len(reached) |-> reached[k].gangster]

\* what C28 asks of one update
C28_QueryOrderStep ==
    /\ UpdateDone => Visited(out'.phaseLog) = AscendingBits(alive)
    /\ UpdateRan =>
          \A i \in 0..(TERRITORY_GRID - 1) :
              LET claimants == {g \in alive : i \in territories[g]}
              IN  claimants # {} =>
                      /\ out'.grid[i] \in claimants
                      /\ \A g \in claimants : out'.grid[i] <= g

\* C28: the gangsters query yields the entities holding the required
\* kinds, each once, in ascending id order, so that the gang the grid
\* records as the claimant of a slot after detection is the one with the
\* lowest id among the gangs holding the slot.
C28_QueryOrder == [][C28_QueryOrderStep]_vars


\* the other entities' components of every kind are as before
OthersKept(S, T, entity) ==
    \A kind \in Kinds : \A e \in (DOMAIN S.components[kind]) \ {entity} :
        /\ Holds(T, e, kind)
        /\ T.components[kind][e] = S.components[kind][e]

\* C26: after createInitialAgents attached the kinds to a new agent and
\* wrote its fields, get on the agent returns the written values and the
\* components of every other entity are as they were; get returns what the
\* table holds for the entity asked; after a detach, get on that entity
\* fails with MissingComponent and the other entities keep their values.
C26_RoundTripStep ==
    /\ out'.op = "createAgent" =>
          LET agent == out'.operator
              emotional == get(store', agent, "EmotionalCore")
              powerOf == get(store', agent, "PowerDynamics")
              territory == get(store', agent, "TerritoryControl")
          IN  /\ emotional.error = "none"
              /\ emotional.value = [mood |-> out'.value.mood, energy |-> out'.value.energy,
                                    socialDrive |-> out'.value.socialDrive]
              /\ powerOf.error = "none"
              /\ powerOf.value = [influence |-> out'.value.influence,
                                  ambition |-> out'.value.ambition]
              /\ territory.error = "none"
              /\ territory.value = [territories |-> {out'.value.slot}]
              /\ get(store', agent, "UndergroundEconomy") =
                    [value |-> Zero("UndergroundEconomy"), error |-> "none"]
              /\ get(store', agent, "ConspiracyState") =
                    [value |-> Zero("ConspiracyState"), error |-> "none"]
              /\ OthersKept(store, store', agent)
    /\ (out'.op = "get" /\ Holds(store, out'.operator, out'.kind)) =>
          /\ out'.error = "none"
          /\ out'.value = store.components[out'.kind][out'.operator]
    /\ (out'.op = "get" /\ ~Holds(store, out'.operator, out'.kind)) =>
          out'.error = "MissingComponent"
    /\ (out'.op = "detach" /\ out'.error = "none") =>
          /\ get(store', out'.operator, out'.kind).error = "MissingComponent"
          /\ OthersKept(store, store', out'.operator)
          /\ \A kind \in Kinds \ {out'.kind} :
                store'.components[kind] = store.components[kind]

C27_DuplicateStep ==
    (out'.op = "add" /\ Holds(store, out'.operator, out'.kind)) =>
        /\ out'.error = "DuplicateComponent"
        /\ store' = store

C27_Duplicate == [][C27_DuplicateStep]_vars

\* a refused add on an entity whose component carries written values
C27_Witness ==
    /\ out.op = "add"
    /\ out.error = "DuplicateComponent"
    /\ store.components[out.kind][out.operator] # Zero(out.kind)


\* the memory holds the last min(k, RING) of the k interactions of the
\* log, each at the slot its number gives, partner and result together,
\* and the slots never written are zero
RingHolds(emotion, log) ==
    LET k == Len(log)
    IN  /\ emotion.nextSlot \in 0..(RING - 1)
        /\ emotion.nextSlot = k % RING
        /\ \A j \in 1..k :
              j > k - RING =>
                  /\ emotion.recentInteractions[(j - 1) % RING] = log[j][1]
                  /\ emotion.interactionResults[(j - 1) % RING] = log[j][2]
        /\ \A slot \in 0..(RING - 1) :
              slot >= k =>
                  /\ emotion.recentInteractions[slot] = 0
                  /\ emotion.interactionResults[slot] = 0

\* C29: nextSlot is always in 0..7; a recording writes the partner and the
\* result at nextSlot, advances nextSlot by one modulo 8 and leaves the
\* other slots and the other entities' memories alone; after k recordings
\* the memory holds exactly the most recent min(k, 8) interactions.
C29_RingStep ==
    /\ out'.op = "recordInteraction" =>
          LET entity == out'.operator
              slot == store.emotion[entity].nextSlot
          IN  /\ slot \in 0..(RING - 1)
              /\ store'.emotion[entity].recentInteractions[slot] = out'.value[1]
              /\ store'.emotion[entity].interactionResults[slot] = out'.value[2]
              /\ store'.emotion[entity].nextSlot = (slot + 1) % RING
              /\ \A other \in 0..(RING - 1) \ {slot} :
                    /\ store'.emotion[entity].recentInteractions[other] =
                          store.emotion[entity].recentInteractions[other]
                    /\ store'.emotion[entity].interactionResults[other] =
                          store.emotion[entity].interactionResults[other]
              /\ \A g \in Gangs \ {entity} : store'.emotion[g] = store.emotion[g]
    /\ \A g \in Gangs : RingHolds(store'.emotion[g], store'.recorded[g])

C29_Ring == [][C29_RingStep]_vars

\* a ninth recording: it has replaced the first in slot 0
C29_Witness ==
    /\ out.op = "recordInteraction"
    /\ Len(store.recorded[out.operator]) > RING
    /\ store.emotion[out.operator].nextSlot = 1
    /\ store.recorded[out.operator][1] # store.recorded[out.operator][RING + 1]


\* the seeker's entry of the discovery cache under the key it looks up
\* with in the state
SeekerEntries(S) ==
    Discovered(S.discoveryCache, Seeker, S.underground[Seeker].marketAccess)

\* C31: a lookup that finds an entry younger than 100 ticks leaves the
\* entry and its timestamp as they are, however often the entry has been
\* served; a lookup at or after insertedTick + 100 computes again and
\* stamps the entry with the current tick.
C31_NoExtensionStep ==
    (out'.op = "UndergroundSystem.update" /\ out'.looked # "none") =>
        \A c \in SeekerEntries(store) :
            IF time - c.timestamp < 100
            THEN /\ out'.looked = "hit"
                 /\ c \in store'.discoveryCache
                 /\ \A d \in store'.discoveryCache :
                       (d.operator = c.operator /\ d.marketAccess = c.marketAccess)
                       => d.timestamp = c.timestamp
            ELSE /\ out'.looked = "computed"
                 /\ \A d \in store'.discoveryCache :
                       (d.operator = c.operator /\ d.marketAccess = c.marketAccess)
                       => d.timestamp = time

C31_NoExtension == [][C31_NoExtensionStep]_vars

\* an entry stamped at tick 0 and served two or more times is computed
\* again by the lookup of tick 100
C31_Witness ==
    /\ time = 101
    /\ out.looked = "computed"
    /\ out.hits = 2
    /\ \E c \in SeekerEntries(store) : c.timestamp = 100


\* C32: in every tick findSuitableMarket returns either no market or a
\* market of the active set of that tick; a market raided and cleaned up
\* in an earlier tick is not returned; and no market is returned only
\* when the operator has access to none of the active markets.
C32_NeverStaleStep ==
    (out'.op = "UndergroundSystem.update" /\ out'.looked # "none") =>
        /\ out'.market # NoGang => out'.market \in Range(store.activeMarkets)
        /\ out'.market \notin store.raided
        /\ out'.market = NoGang =>
              \A m \in Range(store.activeMarkets) :
                  ~Contains(store.underground[Seeker].marketAccess, m)

C32_NeverStale == [][C32_NeverStaleStep]_vars


\* gang g is a party to a pending conflict on slot s
PartyOn(cache, g, s) ==
    \E k \in 1..Len(cache) :
        cache[k].territory = s /\ (cache[k].g1 = g \/ cache[k].g2 = g)

\* the flags of the gangs are those of the pending map
Mirrors(flags, cache) ==
    \A g \in DOMAIN flags : \A s \in 0..(TERRITORY_GRID - 1) :
        s \in flags[g] <=> PartyOn(cache, g, s)


C34_RankFloorStep ==
    UpdateDone =>
        \A a \in alive :
            /\ power'[a].leaderPosition >= 0
            /\ power'[a].leaderPosition <= power[a].leaderPosition
            /\ power[a].leaderPosition = 0 => a \notin Reported(out'.vacuums)

\* C34: whatever number of collapses an update handles, every agent's
\* leaderPosition stays at 0 or above and is never higher than before,
\* and an agent at position 0 is not among the vacancies reported,
\* whatever its stability.
C34_RankFloor == [][C34_RankFloorStep]_vars

\* two collapses were handled in the first update and an agent of rank 1
\* is at rank 0
C34_Witness ==
    /\ time = 1
    /\ out.collapses >= 2
    /\ \E a \in alive :
          /\ power[a].succession = Torn.power.succession
          /\ power[a].leaderPosition = 0
    /\ \E b \in alive :
          /\ power[b].leaderPosition = 0
          /\ Below02(power[b].stabilityFactor)


\* the challenger's group has the challenger and a leader and nobody else
PairGroup(D, c) ==
    /\ Cardinality({m \in alive : D[m].groupId = D[c].groupId}) = 2
    /\ LeadersOf(D, c) # {}
    /\ c \notin LeadersOf(D, c)

\* what C35 asks of one call on a group of two
C35_NoThirdPartyStep ==
    /\ (out'.branch = "support" /\ PairGroup(store.dynamics, out'.challenger)) =>
          out'.support.den = 0
    /\ (out'.branch \in {"returned", "successful", "failed"}
        /\ PairGroup(store.dynamics, out'.challenger)) =>
          /\ out'.branch = "failed"
          /\ out'.support.den = 0
          /\ LeadersOf(store'.dynamics, out'.challenger)
                = LeadersOf(store.dynamics, out'.challenger)
          /\ store'.dynamics[out'.challenger].influence * 2
                = store.dynamics[out'.challenger].influence

\* C35: in a group whose only members are the challenger and the leader
\* calculateSupport divides by 0 and gives no usable value, and
\* handleLeadershipChallenge takes the failed branch: the leader stays and
\* the challenger pays the penalty.
C35_NoThirdParty == [][C35_NoThirdPartyStep]_vars


\* what C36 asks of one HitSystem update
C36_NoUnderflowStep ==
    out'.op = "HitSystem.update" =>
        \A g \in alive :
            /\ out'.value[g] <= store.hitOps[g].hitSquads
            /\ store'.hitOps[g].hitSquads = store.hitOps[g].hitSquads - out'.value[g]

\* C36: the hits an operator executes in one tick never exceed the
\* hitSquads it had at the start of the tick, so the counter never goes
\* below 0 and never wraps to 65535.
C36_NoUnderflow == [][C36_NoUnderflowStep]_vars


\* what C37 asks of one call of processLaundering
C37_NoOverdraftStep ==
    out'.op = "processLaundering" =>
        LET before == store.laundering[out'.operator]
            after == store'.laundering[out'.operator]
        IN  /\ before.dirtyMoney.hi = 0 =>
                  /\ out'.value <= before.dirtyMoney.lo * 100
                  /\ after.dirtyMoney.hi = 0
                  /\ after.dirtyMoney.lo <= before.dirtyMoney.lo
            /\ (after.cleanMoney - before.cleanMoney) * 1000 <= out'.value * 9

\* C37: the amounts one processLaundering call subtracts sum to at most
\* the dirtyMoney held before the call, so the ui32 field does not wrap,
\* and cleanMoney grows by at most 90% of what was removed.
C37_NoOverdraft == [][C37_NoOverdraftStep]_vars


\* C38: an entity whose task is rest and which is not interruptible has no
\* behaviour selected by the next update and still has task rest after it;
\* the update either leaves it resting, below the thresholds and for at
\* most the 6th time, or completes the rest, which makes it interruptible
\* with task progress 0 -- so a rest ends with its 7th update at the latest.
C38_RestStep ==
    \A g \in Range(Behaving) :
        (/\ store.behavior[g].currentTask = 1
         /\ store.behavior[g].interruptible = 0
         /\ out'.op = "EmotionalBehaviorSystem.update")
        => /\ g \notin out'.indices
           /\ store'.behavior[g].currentTask = 1
           /\ \/ /\ store'.behavior[g].interruptible = 0
                 /\ store'.behavior[g].taskProgress =
                        store.behavior[g].taskProgress + 1500
                 /\ store'.behavior[g].taskProgress <= ONE
                 /\ store'.behavior[g].energy < 8000
                 /\ store'.behavior[g].resting <= 6
              \/ /\ store'.behavior[g].interruptible = 1
                 /\ store'.behavior[g].taskProgress = 0
                 /\ store.behavior[g].resting <= 6

C38_Rest == [][C38_RestStep]_vars

\* entity 0 has rested for six updates and is still resting
C38_Witness ==
    /\ store.behavior[0].currentTask = 1
    /\ store.behavior[0].interruptible = 0
    /\ store.behavior[0].resting = 6
    /\ store.behavior[0].taskProgress = 9000


\* the emergency of holder h is declared by the step
DeclaredFor(h) ==
    \E i \in 1..Len(out'.value) : out'.value[i].holder = h

\* C39: an update declares emergency powers only for a crisis of severity
\* above 0.8 on a holder without an active emergency; the duration of an
\* emergency that stays active grows by exactly 1; an emergency of a holder
\* with stabilityFactor at most 1 is not active after the 80th update since
\* its declaration; and a lifted emergency has duration, severity and
\* enforcers 0.
C39_LiftedStep ==
    out'.op = "EconomicPowerSystem.update" =>
        /\ \A i \in 1..Len(out'.value) :
               /\ out'.value[i].severity > 80
               /\ store.economy[out'.value[i].holder].active = 0
        /\ \A h \in Range(Holders) :
               LET before == store.economy[h]
                   after == store'.economy[h]
               IN  /\ (before.active = 0 /\ after.active # 0) => DeclaredFor(h)
                   /\ (before.active # 0 /\ after.active # 0)
                          => after.duration = before.duration + 1
                   /\ (after.active # 0 /\ after.stabilityFactor <= 1000)
                          => after.age < 80
                   /\ (before.active # 0 /\ after.active = 0)
                          => /\ after.duration = 0
                             /\ after.severity = 0
                             /\ after.enforcers = {}

C39_Lifted == [][C39_LiftedStep]_vars

====
